---- MODULE Spec2Model ----
(***************************************************************************)
(* Context-window usage accounting of the chat client                      *)
(* (src/src/hooks/useContextWindowUsage.ts and the usage normalizer of     *)
(* src/unnamed/part_004), as a state machine over the renders of the       *)
(* useContextWindowUsage hook.                                             *)
(***************************************************************************)
EXTENDS Integers, Sequences, FiniteSets, TLC

VARIABLES
    arrays,       \* the message arrays that exist: array reference -> its items (catalog indices)
    messagesRef,  \* the `messages` argument: an array reference, or NullRef
    model,        \* the `model` argument
    engine,       \* the `engine` argument
    memo,         \* the useMemo cell of the hook: dependencies and cached value
    result,       \* what the last call of the hook returned (or that it threw)
    rendered,     \* the hook has been called at least once
    recomputed,   \* the last call ran the useMemo factory
    lastRender,   \* history: reference, length, model, engine seen by the last call
    triggered,    \* history: the last call saw one of those four differ
    atTrigger,    \* history: the inputs, contents included, as they were then
    fmtInput,     \* formatting: the token count and the window size to display
    fmtOutput,    \* formatting: the formattedTokens text made of them
    fmtDone,      \* formatting: fmtOutput has been made
    themeMounted, \* ThemeProvider: it is mounted
    themeMode,    \* ThemeProvider: the preference (light, dark or system)
    resolvedTheme,\* ThemeProvider: the theme applied (light or dark)
    systemTheme,  \* what prefers-color-scheme says
    themeStorage, \* localStorage: the keys theme_mode and theme
    modeHistory,  \* history: the last values of themeMode, oldest first
    togglesInRow, \* history: how many of the last operations were toggleTheme
    cacheStorage, \* localStorage: the items of the three model-name caches
    storageWritable, \* localStorage.setItem succeeds (it throws when full)
    lastCall,     \* history: the last call of a cache function and what it did
    tabs,         \* useTabs: the tabs, each with its session, path and state
    tabsRef,      \* useSessionSync: tabsRef.current
    running,      \* the backend: the ids of the running Claude sessions
    pendingEvent, \* a claude-session-state event emitted and not handled yet
    initialTimer, \* the 1 s timeout: armed, fired or cleared
    intervalId,   \* the 30 s interval: armed or cleared
    inFlight,     \* the listRunningClaudeSessions call awaited, if any
    cancelled,    \* the cancelled flag of the polling effect (set by its cleanup)
    unlisten,     \* the event listener: pending, set or called
    settled,      \* the backend has stopped changing and its API answers
    lastHandled,  \* history: how the last pass ended or the last event found its tab
    autoScroll,   \* useSmartAutoScroll: its state, refs, geometry and callbacks
    lastStep,     \* history: what the last step of useSmartAutoScroll was
    autoCompact,  \* useAutoCompactStatus: its status, listeners and callbacks
    pluginSlash,  \* usePluginSlashCommands: the responses and the list built
    codexSettings \* GeneralSettings: the custom Codex path form and the backend

usageVars == <<arrays, messagesRef, model, engine, memo, result, rendered,
               recomputed, lastRender, triggered, atTrigger>>
formatVars == <<fmtInput, fmtOutput, fmtDone>>
themeVars == <<themeMounted, themeMode, resolvedTheme, systemTheme, themeStorage,
               modeHistory, togglesInRow>>

cacheVars == <<cacheStorage, storageWritable, lastCall>>
syncVars == <<tabs, tabsRef, running, pendingEvent, initialTimer, intervalId,
              inFlight, cancelled, unlisten, settled, lastHandled>>

scrollVars == <<autoScroll, lastStep>>
compactVars == <<autoCompact>>
pluginVars == <<pluginSlash>>
codexVars == <<codexSettings>>
hookVars == <<scrollVars, compactVars, pluginVars, codexVars>>

vars == <<usageVars, formatVars, themeVars, cacheVars, syncVars, hookVars>>

\* What lies outside the renders of useContextWindowUsage, outside the
\* formatting, outside the ThemeProvider, outside the model-name caches.
outsideUsage == <<formatVars, themeVars, cacheVars, syncVars, hookVars>>
outsideFormat == <<usageVars, themeVars, cacheVars, syncVars, hookVars>>
outsideTheme == <<usageVars, formatVars, cacheVars, syncVars, hookVars>>
outsideCache == <<usageVars, formatVars, themeVars, syncVars, hookVars>>
outsideSync == <<usageVars, formatVars, themeVars, cacheVars, hookVars>>
coreVars == <<usageVars, formatVars, themeVars, cacheVars, syncVars>>
outsideScroll == <<coreVars, compactVars, pluginVars, codexVars>>
outsideCompact == <<coreVars, scrollVars, pluginVars, codexVars>>
outsidePlugin == <<coreVars, scrollVars, compactVars, codexVars>>
outsideCodex == <<coreVars, scrollVars, compactVars, pluginVars>>

(***************************************************************************)
(* Bounds of the model.                                                    *)
(***************************************************************************)
MaxMsgs == 3
MaxMemoMsgs == 2

(***************************************************************************)
(* JavaScript values.  Every value carries its typeof tag, so that the     *)
(* truthiness tests and typeof tests of the code can be taken as written.  *)
(***************************************************************************)
Undef == [t |-> "undefined", n |-> 0]
Str == [t |-> "string", n |-> 0]
Num(k) == [t |-> "number", n |-> k]

UsageOf(i, o, cc, cr) ==
    [input_tokens |-> i, output_tokens |-> o,
     cache_creation_input_tokens |-> cc, cache_read_input_tokens |-> cr]

EmptyObject == UsageOf(Undef, Undef, Undef, Undef)

\* A property that may hold a usage payload: missing, a string, or an object.
NoSlot == [t |-> "undefined", o |-> EmptyObject]
StrSlot == [t |-> "string", o |-> EmptyObject]
ObjSlot(u) == [t |-> "object", o |-> u]

Truthy(slot) == slot.t \in {"string", "object"}
IsObject(slot) == slot.t = "object"

NoItemType == "none"
ThreadTokenUsageUpdated == "thread_token_usage_updated"
TokenCount == "token_count"

NoMetadata ==
    [t |-> "undefined", usage |-> NoSlot, codexItemType |-> NoItemType,
     modelContextWindow |-> Undef]
Metadata(u, ty, w) ==
    [t |-> "object", usage |-> u, codexItemType |-> ty, modelContextWindow |-> w]

NoInner == [t |-> "undefined", usage |-> NoSlot]
Inner(u) == [t |-> "object", usage |-> u]

Message(u, inner, md) ==
    [t |-> "object", usage |-> u, message |-> inner, codexMetadata |-> md]
\* A null element of the list: reading a property of it throws a TypeError.
NullMsg ==
    [t |-> "null", usage |-> NoSlot, message |-> NoInner, codexMetadata |-> NoMetadata]
\* A number element of the list: reading a property of it gives undefined.
PrimMsg ==
    [t |-> "number", usage |-> NoSlot, message |-> NoInner, codexMetadata |-> NoMetadata]

(***************************************************************************)
(* The payloads and messages the inputs are drawn from.                    *)
(***************************************************************************)
uIn == UsageOf(Num(3), Num(0), Num(0), Num(0))
uOut == UsageOf(Undef, Num(4), Undef, Undef)
uCacheCreation == UsageOf(Num(0), Num(0), Num(2), Undef)
uCacheRead == UsageOf(Num(0), Undef, Num(0), Num(1))
uMalformed == UsageOf(Str, Num(-1), Undef, Num(0))
uNested == UsageOf(Num(1), Num(1), Num(0), Num(1))
uCumulative == UsageOf(Num(5), Num(1), Num(0), Num(2))
uCumulativeB == UsageOf(Num(2), Num(0), Num(1), Num(0))
uTotal == UsageOf(Num(7), Num(0), Num(0), Num(0))

PlainMsg == Message(NoSlot, NoInner, NoMetadata)

\* The catalog of messages; a list of the model holds indices into it.
MsgCatalog ==
    << PlainMsg,
       NullMsg,
       PrimMsg,
       \* usage on the message itself
       Message(ObjSlot(uIn), NoInner, NoMetadata),
       Message(ObjSlot(uOut), NoInner, NoMetadata),
       Message(ObjSlot(uCacheCreation), NoInner, NoMetadata),
       Message(ObjSlot(uCacheRead), NoInner, NoMetadata),
       Message(ObjSlot(uMalformed), NoInner, NoMetadata),
       \* usage under message.message
       Message(NoSlot, Inner(ObjSlot(uNested)), NoMetadata),
       Message(ObjSlot(uMalformed), Inner(ObjSlot(uNested)), NoMetadata),
       Message(ObjSlot(uOut), Inner(ObjSlot(uIn)), NoMetadata),
       Message(StrSlot, Inner(ObjSlot(uNested)), NoMetadata),
       \* Codex metadata: cumulative usage, item type, reported context window
       Message(NoSlot, NoInner, Metadata(ObjSlot(uCumulative), TokenCount, Num(5))),
       Message(NoSlot, NoInner, Metadata(ObjSlot(uMalformed), TokenCount, Num(0))),
       Message(ObjSlot(uIn), NoInner, Metadata(ObjSlot(uCumulativeB), TokenCount, Str)),
       Message(ObjSlot(uTotal), NoInner, Metadata(NoSlot, ThreadTokenUsageUpdated, Undef)),
       Message(NoSlot, NoInner, Metadata(NoSlot, TokenCount, Num(2))) >>

Msgs == 1..Len(MsgCatalog)
MemoMsgs == {4, 13}

\* The messages of a list of indices.
MsgsOf(ids) == [i \in 1..Len(ids) |-> MsgCatalog[ids[i]]]

SeqsUpTo(S, n) == UNION {[1..k -> S] : k \in 0..n}

Engines == {"claude", "codex", "gemini", "none"}   \* "none": no engine given
Models == {"sonnet", "unlisted"}

NullRef == 0
Refs == {1, 2}

(***************************************************************************)
(* The usage normalizer.                                                   *)
(***************************************************************************)
\* A raw field as a token count: missing, non-numeric and negative give 0.
Coerce(v) == IF v.t = "number" /\ v.n > 0 THEN v.n ELSE 0

normalizeRawUsage(usage) ==
    [input_tokens |-> Coerce(usage.input_tokens),
     output_tokens |-> Coerce(usage.output_tokens),
     cache_creation_tokens |-> Coerce(usage.cache_creation_input_tokens),
     cache_read_tokens |-> Coerce(usage.cache_read_input_tokens)]

normalizeUsageData(usage) ==
    LET standardized == normalizeRawUsage(usage) IN
    [input_tokens |-> standardized.input_tokens,
     output_tokens |-> standardized.output_tokens,
     cache_creation_tokens |-> standardized.cache_creation_tokens,
     cache_read_tokens |-> standardized.cache_read_tokens,
     cache_creation_input_tokens |-> standardized.cache_creation_tokens,
     cache_read_input_tokens |-> standardized.cache_read_tokens]

\* JavaScript's `x || 0` on a number.
OrZero(x) == IF x # 0 THEN x ELSE 0

normalizeUsageForIndicator(rawUsage) ==
    LET normalized == normalizeUsageData(rawUsage) IN
    [inputTokens |-> OrZero(normalized.input_tokens),
     outputTokens |-> OrZero(normalized.output_tokens),
     cacheCreationTokens |-> OrZero(normalized.cache_creation_tokens),
     cacheReadTokens |-> OrZero(normalized.cache_read_tokens)]

ZeroUsage ==
    [inputTokens |-> 0, outputTokens |-> 0, cacheCreationTokens |-> 0, cacheReadTokens |-> 0]

\* The test `inputTokens > 0 || outputTokens > 0 || ...` of the extractors.
NonZero(n) ==
    \/ n.inputTokens > 0
    \/ n.outputTokens > 0
    \/ n.cacheCreationTokens > 0
    \/ n.cacheReadTokens > 0

(***************************************************************************)
(* The usage extractors.  An extractor ends in one of three ways: it       *)
(* throws, it returns null, or it returns a normalized usage.              *)
(***************************************************************************)
Threw == [thrown |-> TRUE, found |-> FALSE, usage |-> ZeroUsage]
ReturnedNull == [thrown |-> FALSE, found |-> FALSE, usage |-> ZeroUsage]
Returned(n) == [thrown |-> FALSE, found |-> TRUE, usage |-> n]

CandidateThrew == [thrown |-> TRUE, slot |-> NoSlot]
Candidate(slot) == [thrown |-> FALSE, slot |-> slot]

\* Variant: the nested message.usage is preferred to the direct usage.
getUsageCandidate_nestedFirst(message, eng) ==
    IF message.t = "null" THEN CandidateThrew
    ELSE LET usage == IF Truthy(message.message.usage) THEN message.message.usage
                      ELSE message.usage
         IN  IF IsObject(usage) THEN Candidate(usage)
             ELSE IF eng = "codex" /\ IsObject(message.codexMetadata.usage)
                  THEN Candidate(message.codexMetadata.usage)
                  ELSE Candidate(NoSlot)

getUsageCandidate(message, eng) ==
    IF message.t = "null" THEN CandidateThrew
    ELSE LET usage == IF Truthy(message.usage) THEN message.usage
                      ELSE message.message.usage
         IN  IF IsObject(usage) THEN Candidate(usage)
             ELSE IF eng = "codex" /\ IsObject(message.codexMetadata.usage)
                  THEN Candidate(message.codexMetadata.usage)
                  ELSE Candidate(NoSlot)

\* Variant: any usage object ends the scan, all-zero or not.
CurrentHasData_any(normalized) == TRUE

\* The test of extractCurrentUsage that a normalized usage carries data.
CurrentHasData(normalized) == NonZero(normalized)

\* The loop of extractCurrentUsage, from index i down to 1.
RECURSIVE CurrentUsageFrom(_, _, _)
CurrentUsageFrom(items, eng, i) ==
    IF i = 0 THEN ReturnedNull
    ELSE LET c == getUsageCandidate(items[i], eng) IN
         IF c.thrown THEN Threw
         ELSE IF ~IsObject(c.slot) THEN CurrentUsageFrom(items, eng, i - 1)
         ELSE LET normalized == normalizeUsageForIndicator(c.slot.o) IN
              IF CurrentHasData(normalized) THEN Returned(normalized)
              ELSE CurrentUsageFrom(items, eng, i - 1)

extractCurrentUsage(items, eng) == CurrentUsageFrom(items, eng, Len(items))

\* First loop of extractCodexCumulativeUsage, from index i down to 1.
RECURSIVE CumulativeFrom(_, _)
CumulativeFrom(items, i) ==
    IF i = 0 THEN ReturnedNull
    ELSE LET cumulativeUsage == items[i].codexMetadata.usage IN
         IF IsObject(cumulativeUsage)
            /\ NonZero(normalizeUsageForIndicator(cumulativeUsage.o))
         THEN Returned(normalizeUsageForIndicator(cumulativeUsage.o))
         ELSE CumulativeFrom(items, i - 1)

AddUsage(acc, n) ==
    [inputTokens |-> acc.inputTokens + n.inputTokens,
     outputTokens |-> acc.outputTokens + n.outputTokens,
     cacheCreationTokens |-> acc.cacheCreationTokens + n.cacheCreationTokens,
     cacheReadTokens |-> acc.cacheReadTokens + n.cacheReadTokens]

\* Variant: a thread_token_usage_updated message is summed like any other.
SkipsCumulativeUpdate_never(msg) == FALSE

\* The test of the second loop that skips a message (its usage is a total).
SkipsCumulativeUpdate(msg) ==
    msg.codexMetadata.codexItemType = ThreadTokenUsageUpdated

\* Second loop of extractCodexCumulativeUsage, from index i up to the end.
RECURSIVE DeltaSumFrom(_, _, _, _)
DeltaSumFrom(items, i, acc, foundAny) ==
    IF i > Len(items)
    THEN IF foundAny THEN Returned(acc) ELSE ReturnedNull
    ELSE LET msg == items[i] IN
         IF SkipsCumulativeUpdate(msg)
         THEN DeltaSumFrom(items, i + 1, acc, foundAny)
         ELSE IF msg.t = "null" THEN Threw
         ELSE IF IsObject(msg.usage)
                 /\ NonZero(normalizeUsageForIndicator(msg.usage.o))
         THEN DeltaSumFrom(items, i + 1,
                           AddUsage(acc, normalizeUsageForIndicator(msg.usage.o)), TRUE)
         ELSE DeltaSumFrom(items, i + 1, acc, foundAny)

\* Variant of the first loop: it stops at the first codexMetadata.usage
\* object met, all-zero or not.
RECURSIVE LatestSnapshotFrom(_, _)
LatestSnapshotFrom(items, i) ==
    IF i = 0 THEN ReturnedNull
    ELSE LET cumulativeUsage == items[i].codexMetadata.usage IN
         IF IsObject(cumulativeUsage)
         THEN IF NonZero(normalizeUsageForIndicator(cumulativeUsage.o))
              THEN Returned(normalizeUsageForIndicator(cumulativeUsage.o))
              ELSE ReturnedNull
         ELSE LatestSnapshotFrom(items, i - 1)

\* Variant: only the most recent codexMetadata.usage object is looked at.
extractCodexCumulativeUsage_latestOnly(items) ==
    LET first == LatestSnapshotFrom(items, Len(items)) IN
    IF first.found THEN first
    ELSE DeltaSumFrom(items, 1, ZeroUsage, FALSE)

\* Variant: the cumulative snapshot is not looked for; every usage is summed.
extractCodexCumulativeUsage_sumOnly(items) ==
    DeltaSumFrom(items, 1, ZeroUsage, FALSE)

extractCodexCumulativeUsage(items) ==
    LET cumulative == CumulativeFrom(items, Len(items)) IN
    IF cumulative.found THEN cumulative
    ELSE DeltaSumFrom(items, 1, ZeroUsage, FALSE)

(***************************************************************************)
(* The context window.                                                     *)
(***************************************************************************)
\* The static table of context-window sizes: a pure function of the model
\* and the engine.  "unlisted" stands for an entry without a capacity.
getContextWindowSize(mdl, eng) ==
    IF mdl = "unlisted" THEN 0
    ELSE IF eng = "codex" THEN 6
    ELSE IF eng = "gemini" THEN 10
    ELSE 8

\* The loop over codexMetadata.modelContextWindow, from index i down to 1.
RECURSIVE WindowFrom(_, _, _)
WindowFrom(items, i, contextWindowSize) ==
    IF i = 0 THEN contextWindowSize
    ELSE LET maybeCtx == items[i].codexMetadata.modelContextWindow IN
         IF maybeCtx.t = "number" /\ maybeCtx.n > 0 THEN maybeCtx.n
         ELSE WindowFrom(items, i - 1, contextWindowSize)

\* Variant: the reported context window is taken for every engine.
resolveContextWindow_anyEngine(items, mdl, eng) ==
    WindowFrom(items, Len(items), getContextWindowSize(mdl, eng))

resolveContextWindow(items, mdl, eng) ==
    IF eng = "codex"
    THEN WindowFrom(items, Len(items), getContextWindowSize(mdl, eng))
    ELSE getContextWindowSize(mdl, eng)

(***************************************************************************)
(* The aggregator.  A percentage is an exact fraction num / den, den > 0.  *)
(***************************************************************************)
Rat(n, d) == [num |-> n, den |-> d]
RatMin(r, s) == IF r.num * s.den <= s.num * r.den THEN r ELSE s

\* A piece of displayed text: a decimal number, its digits after the point
\* (none: no point is written), and what follows it.
Text(whole, frac, suffix) == [whole |-> whole, frac |-> frac, suffix |-> suffix]

\* Number.prototype.toFixed(1) of num / den >= 0: the nearest tenth, written
\* with exactly one digit after the point. Exactly half way between two
\* tenths the binary value of the quotient decides; the model rounds up
\* there, and no property below depends on which of the two it is.
toFixed1(num, den, suffix) ==
    LET tenths == (20 * num + den) \div (2 * den) IN
    Text(tenths \div 10, <<tenths % 10>>, suffix)

\* Variant: the thresholds are tested with > instead of >=.
formatK_strict(n) ==
    IF n > 1000000 THEN toFixed1(n, 1000000, "M")
    ELSE IF n > 1000 THEN toFixed1(n, 1000, "K")
    ELSE Text(n, <<>>, "")

formatK(n) ==
    IF n >= 1000000 THEN toFixed1(n, 1000000, "M")
    ELSE IF n >= 1000 THEN toFixed1(n, 1000, "K")
    ELSE Text(n, <<>>, "")

\* `${formatK(currentTokens)} / ${formatK(contextWindowSize)}`: the two
\* texts around the " / ".
formattedTokensOf(currentTokens, contextWindowSize) ==
    [current |-> formatK(currentTokens), window |-> formatK(contextWindowSize)]

\* `${percentage.toFixed(1)}%`
formattedPercentageOf(percentage) == toFixed1(percentage.num, percentage.den, "%")

ThrewResult ==
    [thrown |-> TRUE, hasData |-> FALSE, currentTokens |-> 0, contextWindowSize |-> 0,
     percentage |-> Rat(0, 1), breakdown |-> ZeroUsage,
     formattedPercentage |-> Text(0, <<>>, ""),
     formattedTokens |-> [current |-> Text(0, <<>>, ""), window |-> Text(0, <<>>, "")]]

\* Variant: the zeroed result zeroes the window size too.
defaultResult_noWindow(contextWindowSize) ==
    [thrown |-> FALSE, hasData |-> FALSE, currentTokens |-> 0,
     contextWindowSize |-> 0,
     percentage |-> Rat(0, 1), breakdown |-> ZeroUsage,
     formattedPercentage |-> Text(0, <<>>, "%"),
     formattedTokens |-> [current |-> Text(0, <<>>, ""), window |-> formatK(0)]]

\* formattedPercentage is the literal '0%', formattedTokens starts with a
\* literal 0.
defaultResult(contextWindowSize) ==
    [thrown |-> FALSE, hasData |-> FALSE, currentTokens |-> 0,
     contextWindowSize |-> contextWindowSize,
     percentage |-> Rat(0, 1), breakdown |-> ZeroUsage,
     formattedPercentage |-> Text(0, <<>>, "%"),
     formattedTokens |-> [current |-> Text(0, <<>>, ""),
                          window |-> formatK(contextWindowSize)]]

\* Variant: the output tokens are counted as context.
currentTokensOf_withOutput(currentUsage) ==
    currentUsage.inputTokens + currentUsage.cacheCreationTokens
        + currentUsage.cacheReadTokens + currentUsage.outputTokens

currentTokensOf(currentUsage) ==
    currentUsage.inputTokens + currentUsage.cacheCreationTokens
        + currentUsage.cacheReadTokens

\* Variant: the percentage is not clamped to 100.
percentageOf_unclamped(currentTokens, contextWindowSize) ==
    IF contextWindowSize > 0
    THEN Rat(currentTokens * 100, contextWindowSize)
    ELSE Rat(0, 1)

percentageOf(currentTokens, contextWindowSize) ==
    IF contextWindowSize > 0
    THEN RatMin(Rat(currentTokens * 100, contextWindowSize), Rat(100, 1))
    ELSE Rat(0, 1)

\* The useMemo factory; it runs on an array, never on null.
computeUsage(items, mdl, eng) ==
    LET contextWindowSize == resolveContextWindow(items, mdl, eng) IN
    IF Len(items) = 0 THEN defaultResult(contextWindowSize)
    ELSE LET currentUsage == IF eng = "codex" THEN extractCodexCumulativeUsage(items)
                             ELSE extractCurrentUsage(items, eng)
         IN  IF currentUsage.thrown THEN ThrewResult
             ELSE IF ~currentUsage.found THEN defaultResult(contextWindowSize)
             ELSE [thrown |-> FALSE, hasData |-> TRUE,
                   currentTokens |-> currentTokensOf(currentUsage.usage),
                   contextWindowSize |-> contextWindowSize,
                   percentage |-> percentageOf(currentTokensOf(currentUsage.usage),
                                               contextWindowSize),
                   breakdown |-> currentUsage.usage,
                   formattedPercentage |->
                       formattedPercentageOf(
                           percentageOf(currentTokensOf(currentUsage.usage),
                                        contextWindowSize)),
                   formattedTokens |->
                       formattedTokensOf(currentTokensOf(currentUsage.usage),
                                         contextWindowSize)]

\* Variant: messages.length is left out of the dependency array.
Deps_noLength(ref, len, mdl, eng) == <<ref, 0, mdl, eng>>

\* The dependency array [messages, messages.length, model, engine].
Deps(ref, len, mdl, eng) == <<ref, len, mdl, eng>>

NoDeps == <<NullRef, 0, "", "">>
NoResult == defaultResult(0)
NoMemo == [has |-> FALSE, deps |-> NoDeps, value |-> NoResult]

\* One call of the hook: the new memo cell, what the call returns, and
\* whether the factory ran.  Reading messages.length of null throws.
useContextWindowUsage(cell, arrs, ref, mdl, eng) ==
    IF ref = NullRef
    THEN [memo |-> cell, result |-> ThrewResult, ran |-> FALSE]
    ELSE LET deps == Deps(ref, Len(arrs[ref]), mdl, eng) IN
         IF cell.has /\ cell.deps = deps
         THEN [memo |-> cell, result |-> cell.value, ran |-> FALSE]
         ELSE LET value == computeUsage(MsgsOf(arrs[ref]), mdl, eng) IN
              IF value.thrown
              THEN [memo |-> cell, result |-> value, ran |-> TRUE]
              ELSE [memo |-> [has |-> TRUE, deps |-> deps, value |-> value],
                    result |-> value, ran |-> TRUE]

(***************************************************************************)
(* The state machine.                                                      *)
(***************************************************************************)
ItemsOf(arrs, ref) == IF ref = NullRef THEN <<>> ELSE arrs[ref]

InitHook ==
    /\ memo = NoMemo
    /\ result = NoResult
    /\ rendered = FALSE
    /\ recomputed = FALSE
    /\ lastRender = NoDeps
    /\ triggered = FALSE
    /\ atTrigger = [items |-> <<>>, model |-> "", engine |-> ""]

\* The text formatting at rest.
NoFormat == formattedTokensOf(0, 0)
IdleFormat ==
    /\ fmtInput = <<0, 0>>
    /\ fmtOutput = NoFormat
    /\ fmtDone = FALSE

\* The ThemeProvider not mounted, on a fresh install.
Absent == "absent"
IdleTheme ==
    /\ themeMounted = FALSE
    /\ themeMode = "system"
    /\ resolvedTheme = "dark"
    /\ systemTheme = "dark"
    /\ themeStorage = [theme_mode |-> Absent, theme |-> Absent]
    /\ modeHistory = <<>>
    /\ togglesInRow = 0

\* The three caches: the localStorage item and the event of each.
Caches == {"claude", "codex", "gemini"}
CacheKeys == {"sonnet", "opus"}
DisplayNames == {"name 4.5", "name 4.6"}
NoName == "undefined"

\* A localStorage item: absent, or the JSON text of an object, held as the
\* set of its "key": "value" members.
NoItem == [present |-> FALSE, text |-> {}]
Item(text) == [present |-> TRUE, text |-> text]

NoCall ==
    [called |-> FALSE, cache |-> "claude", key |-> "sonnet", displayName |-> NoName,
     before |-> NoItem, othersBefore |-> [c \in Caches |-> NoItem],
     wrote |-> FALSE, threw |-> FALSE, events |-> [c \in Caches |-> 0]]

\* Nothing cached yet, no cache function called.
IdleCache ==
    /\ cacheStorage = [c \in Caches |-> NoItem]
    /\ storageWritable = TRUE
    /\ lastCall = NoCall

\* Paths are sequences of characters; the empty one stands for an absent
\* or empty path.
NoPath == <<>>
WinPath == <<"C", "\\", "P", "\\">>
UnixPath == <<"c", "/", "p">>

TabIds == {1, 2}
SessionIds == {"s1", "s2"}
NoTab == 0

\* tab.session: absent (its id then reads as "", like undefined), or a
\* session with its id.
NoSession == [present |-> FALSE, id |-> "", project_path |-> NoPath]
Session(id, path) == [present |-> TRUE, id |-> id, project_path |-> path]
Tab(session, projectPath, state) ==
    [session |-> session, projectPath |-> projectPath, state |-> state]

NoEvent == [present |-> FALSE, session_id |-> "", status |-> "", project_path |-> NoPath]
Event(id, status, path) ==
    [present |-> TRUE, session_id |-> id, status |-> status, project_path |-> path]

NoRequest == [active |-> FALSE, activeSessions |-> {}, startedSince |-> {}]
NoMatch == [found |-> FALSE, tab |-> NoTab, byPath |-> FALSE]

\* useSessionSync not mounted yet, no tab restored.
IdleSync ==
    /\ tabs = [t \in TabIds |-> Tab(NoSession, NoPath, "idle")]
    /\ tabsRef = tabs
    /\ running = {}
    /\ pendingEvent = NoEvent
    /\ initialTimer = "armed"
    /\ intervalId = "armed"
    /\ inFlight = NoRequest
    /\ cancelled = FALSE
    /\ unlisten = "pending"
    /\ settled = FALSE
    /\ lastHandled = "none"

\* useSmartAutoScroll: no timer armed (autoScrollTimerRef.current is null).
NoTimer == 0

\* useSmartAutoScroll after its first render with no messages: at the bottom,
\* auto-scroll on, nothing scheduled.
ScrollAtRest ==
    [userScrolled |-> FALSE, shouldAutoScroll |-> TRUE, isLoading |-> FALSE,
     count |-> 0, content |-> 0, distance |-> 0,
     isAutoScrollingRef |-> FALSE, autoScrollTimerRef |-> NoTimer,
     scrollEvent |-> FALSE, timeoutId |-> FALSE, timeoutFrame |-> FALSE,
     rafId |-> FALSE, intervalId |-> FALSE, ticks |-> 0,
     intervalFrame |-> FALSE, frameId |-> FALSE, mounted |-> TRUE,
     scrolledTo |-> FALSE]

NoStep == "none"

IdleScroll == autoScroll = ScrollAtRest /\ lastStep = NoStep

\* useAutoCompactStatus: a payload field or a status field that is null.
NullField == -1

CompactSessions == {"a", "b"}

\* useAutoCompactStatus after its first render for session "a": the initial
\* status, the listen call of the effect awaited, no other listener.
CompactAtRest ==
    [sessionId |-> "a",
     unlisten |-> "pending",
     orphans |-> {},
     leaked |-> {},
     status |-> [eventType |-> "null", isCompacting |-> FALSE, progress |-> 0,
                 tokensAfter |-> NullField, compactionCount |-> 0],
     fired |-> 0]

IdleCompact == autoCompact = CompactAtRest

\* usePluginSlashCommands before its first load: nothing listed.
PluginAtRest ==
    [plugins |-> <<>>, skills |-> <<>>, enabled |-> TRUE, phase |-> "idle",
     isLoading |-> FALSE, pluginCommands |-> <<>>]

IdlePlugin == pluginSlash = PluginAtRest

\* GeneralSettings: no call of handleSetCodexCustomPath or of
\* handleValidateCodexPath in flight.
NoCodexCall == [phase |-> "idle", path |-> <<>>, arg |-> <<>>]

\* GeneralSettings after its first render: custom-path mode closed, the
\* input empty, no custom path saved in the backend (saved is empty).
CodexAtRest ==
    [customCodexPath |-> <<>>,
     isCodexCustomPathMode |-> FALSE,
     codexPathError |-> "null",
     codexPathValid |-> "null",
     validatingCodexPath |-> FALSE,
     saved |-> <<>>,
     setting |-> NoCodexCall,
     validating |-> NoCodexCall,
     outcome |-> "none"]

IdleCodex == codexSettings = CodexAtRest

IdleHooks == IdleScroll /\ IdleCompact /\ IdlePlugin /\ IdleCodex

\* Everything outside the renders of the hook at rest.
IdleOutsideUsage == IdleFormat /\ IdleTheme /\ IdleCache /\ IdleSync /\ IdleHooks

\* Any bounded input of one call of the hook.
Init ==
    /\ \E items \in SeqsUpTo(Msgs, MaxMsgs) :
           arrays = [r \in Refs |-> IF r = 1 THEN items ELSE <<>>]
    /\ messagesRef \in {NullRef, 1}
    /\ messagesRef = NullRef => arrays[1] = <<>>
    /\ model \in Models
    /\ engine \in Engines
    /\ InitHook
    /\ IdleOutsideUsage

\* The component renders: the hook is called with the current arguments.
Render ==
    /\ LET call == useContextWindowUsage(memo, arrays, messagesRef, model, engine)
           key == <<messagesRef, Len(ItemsOf(arrays, messagesRef)), model, engine>>
           trig == ~rendered \/ key # lastRender
       IN  /\ memo' = call.memo
           /\ result' = call.result
           /\ recomputed' = call.ran
           /\ lastRender' = key
           /\ triggered' = trig
           /\ atTrigger' = IF trig
                           THEN [items |-> ItemsOf(arrays, messagesRef),
                                 model |-> model, engine |-> engine]
                           ELSE atTrigger
    /\ rendered' = TRUE
    /\ UNCHANGED <<arrays, messagesRef, model, engine, outsideUsage>>

FirstRender == ~rendered /\ Render

Next == FirstRender

Spec == Init /\ [][Next]_vars

(***************************************************************************)
(* The component around the hook: between two renders the caller may       *)
(* change what it passes, or change the array it passed in place.          *)
(***************************************************************************)
MemoEngines == {"claude", "codex"}

InitMemo ==
    /\ arrays = [r \in Refs |-> <<>>]
    /\ messagesRef = 1
    /\ model = "sonnet"
    /\ engine = "claude"
    /\ InitHook
    /\ IdleOutsideUsage

hookState == <<memo, result, rendered, recomputed, lastRender, triggered, atTrigger>>

\* messages.push(m): same array, one more item.
PushInPlace(m) ==
    /\ Len(arrays[messagesRef]) < MaxMemoMsgs
    /\ arrays' = [arrays EXCEPT ![messagesRef] = Append(@, m)]
    /\ UNCHANGED <<messagesRef, model, engine, hookState, outsideUsage>>

\* messages[i] = m: same array, same length, another item.
OverwriteInPlace(i, m) ==
    /\ i \in 1..Len(arrays[messagesRef])
    /\ arrays[messagesRef][i] # m
    /\ arrays' = [arrays EXCEPT ![messagesRef][i] = m]
    /\ UNCHANGED <<messagesRef, model, engine, hookState, outsideUsage>>

\* setMessages([...messages, m]): another array with one more item.
ReplaceMessages(r, m) ==
    /\ r # messagesRef
    /\ Len(arrays[messagesRef]) < MaxMemoMsgs
    /\ arrays' = [arrays EXCEPT ![r] = Append(arrays[messagesRef], m)]
    /\ messagesRef' = r
    /\ UNCHANGED <<model, engine, hookState, outsideUsage>>

\* setMessages([]): another, empty array.
ClearMessages(r) ==
    /\ r # messagesRef
    /\ arrays' = [arrays EXCEPT ![r] = <<>>]
    /\ messagesRef' = r
    /\ UNCHANGED <<model, engine, hookState, outsideUsage>>

SetModel(mdl) ==
    /\ mdl # model
    /\ model' = mdl
    /\ UNCHANGED <<arrays, messagesRef, engine, hookState, outsideUsage>>

SetEngine(eng) ==
    /\ eng # engine
    /\ engine' = eng
    /\ UNCHANGED <<arrays, messagesRef, model, hookState, outsideUsage>>

NextMemo ==
    \/ \E m \in MemoMsgs : PushInPlace(m)
    \/ \E i \in 1..MaxMemoMsgs, m \in MemoMsgs : OverwriteInPlace(i, m)
    \/ \E r \in Refs, m \in MemoMsgs : ReplaceMessages(r, m)
    \/ \E r \in Refs : ClearMessages(r)
    \/ \E mdl \in Models : SetModel(mdl)
    \/ \E eng \in MemoEngines : SetEngine(eng)
    \/ Render

SpecMemo == InitMemo /\ [][NextMemo]_vars

\* The hook not called, with nothing to show: the state of the usage
\* variables while another part of the program is looked at.
IdleUsage ==
    /\ arrays = [r \in Refs |-> <<>>]
    /\ messagesRef = 1
    /\ model = "sonnet"
    /\ engine = "claude"
    /\ InitHook

(***************************************************************************)
(* formatK and formattedTokens on their own: a token count and a window    *)
(* size around the thresholds of formatK are formatted once.               *)
(***************************************************************************)
FormatSpread == 2

FormatCentres == {0, 950, 1000, 1050, 1500, 999950, 1000000, 2500000}

FormatInputs ==
    {n \in {c + k * s : c \in FormatCentres, k \in -FormatSpread..FormatSpread,
                        s \in {1, 50}} : n >= 0}

InitFormat ==
    /\ fmtInput \in FormatInputs \X FormatInputs
    /\ fmtOutput = NoFormat
    /\ fmtDone = FALSE
    /\ IdleUsage
    /\ IdleTheme
    /\ IdleCache
    /\ IdleSync
    /\ IdleHooks

Format ==
    /\ ~fmtDone
    /\ fmtOutput' = formattedTokensOf(fmtInput[1], fmtInput[2])
    /\ fmtDone' = TRUE
    /\ UNCHANGED <<fmtInput, outsideFormat>>

NextFormat == Format

SpecFormat == InitFormat /\ [][NextFormat]_vars

(***************************************************************************)
(* ThemeProvider: the theme preference, its resolution and its storage.    *)
(***************************************************************************)
MaxTrail == 4

ThemeModes == {"light", "dark", "system"}
ResolvedThemes == {"light", "dark"}

\* matchMedia('(prefers-color-scheme: dark)')
getSystemTheme(sys) == sys

resolveTheme(mode, sys) == IF mode = "system" THEN getSystemTheme(sys) ELSE mode

\* The initializer of the themeMode state: the saved preference, else the
\* theme saved under the old key, else system.
initialThemeMode(storage) ==
    IF storage.theme_mode = Absent
    THEN IF storage.theme \in {"light", "dark"} THEN storage.theme ELSE "system"
    ELSE storage.theme_mode

\* Variant: the toggle switches between light and dark only.
toggleThemeUpdater_twoModes(prev) ==
    IF prev = "light" THEN "dark" ELSE "light"

\* The updater toggleTheme hands to setThemeModeState.
toggleThemeUpdater(prev) ==
    IF prev = "light" THEN "dark"
    ELSE IF prev = "dark" THEN "system"
    ELSE "light"

\* What the program itself leaves in localStorage: nothing, a theme under
\* the old key only, or both keys as the last effect wrote them.
InitTheme ==
    /\ themeMounted = FALSE
    /\ themeMode = "system"
    /\ resolvedTheme = "dark"
    /\ systemTheme \in ResolvedThemes
    /\ themeStorage \in [theme_mode : ThemeModes \cup {Absent},
                         theme : ResolvedThemes \cup {Absent}]
    /\ modeHistory = <<>>
    /\ togglesInRow = 0
    /\ IdleUsage
    /\ IdleFormat
    /\ IdleCache
    /\ IdleSync
    /\ IdleHooks

\* The last MaxTrail + 1 values of themeMode.
Remember(history, mode) ==
    LET all == Append(history, mode) IN
    IF Len(all) > MaxTrail + 1 THEN Tail(all) ELSE all

\* themeMode becomes mode: the effects resolve it, apply it and save both
\* keys.
CommitMode(mode) ==
    /\ themeMode' = mode
    /\ resolvedTheme' = resolveTheme(mode, systemTheme)
    /\ themeStorage' = [theme_mode |-> mode, theme |-> resolveTheme(mode, systemTheme)]
    /\ modeHistory' = Remember(modeHistory, mode)
    /\ UNCHANGED <<systemTheme, outsideTheme>>

MountTheme ==
    /\ ~themeMounted
    /\ themeMounted' = TRUE
    /\ CommitMode(initialThemeMode(themeStorage))
    /\ togglesInRow' = 0

toggleTheme ==
    /\ themeMounted
    /\ CommitMode(toggleThemeUpdater(themeMode))
    /\ togglesInRow' = IF togglesInRow < MaxTrail THEN togglesInRow + 1 ELSE MaxTrail
    /\ UNCHANGED themeMounted

setThemeMode(mode) ==
    /\ themeMounted
    /\ CommitMode(mode)
    /\ togglesInRow' = 0
    /\ UNCHANGED themeMounted

setTheme(theme) ==
    /\ themeMounted
    /\ CommitMode(theme)
    /\ togglesInRow' = 0
    /\ UNCHANGED themeMounted

\* The OS theme changes; the change handler is attached in system mode only.
SystemThemeChanged ==
    /\ themeMounted
    /\ systemTheme' = IF systemTheme = "dark" THEN "light" ELSE "dark"
    /\ IF themeMode = "system"
       THEN /\ resolvedTheme' = systemTheme'
            /\ themeStorage' = [theme_mode |-> themeMode, theme |-> systemTheme']
       ELSE UNCHANGED <<resolvedTheme, themeStorage>>
    /\ UNCHANGED <<themeMounted, themeMode, modeHistory, togglesInRow, outsideTheme>>

NextTheme ==
    \/ MountTheme
    \/ toggleTheme
    \/ \E mode \in ThemeModes : setThemeMode(mode)
    \/ \E theme \in ResolvedThemes : setTheme(theme)
    \/ SystemThemeChanged

SpecTheme == InitTheme /\ [][NextTheme]_vars

(***************************************************************************)
(* The model-name caches of localStorage: cacheModelName,                  *)
(* cacheCodexModelName, cacheGeminiModelName and their getters.            *)
(***************************************************************************)
\* JSON.stringify of an object of display names: its members.
stringify(obj) == {<<k, obj[k]>> : k \in {key \in CacheKeys : obj[key] # NoName}}

\* JSON.parse of such a text: the object with those members.
parse(text) ==
    [k \in CacheKeys |->
        IF \E member \in text : member[1] = k
        THEN (CHOOSE member \in text : member[1] = k)[2]
        ELSE NoName]

EmptyNames == [k \in CacheKeys |-> NoName]

\* getCachedModelNames, getCachedCodexModelNames, getCachedGeminiModelNames:
\* the parsed item, or {} when there is none.
getCachedNames(item) == IF item.present THEN parse(item.text) ELSE EmptyNames

\* Variant: the cache functions write and notify whatever is cached.
NameUnchanged_never(cached, key, displayName) == FALSE

\* "Only update and notify if the name actually changed"
NameUnchanged(cached, key, displayName) == cached[key] = displayName

\* The body the three cache functions share, for the cache c.
CacheInto(c, key, displayName) ==
    LET cached == getCachedNames(cacheStorage[c])
        updated == [cached EXCEPT ![key] = displayName]
        call == [NoCall EXCEPT !.called = TRUE, !.cache = c, !.key = key,
                               !.displayName = displayName,
                               !.before = cacheStorage[c],
                               !.othersBefore = [cacheStorage EXCEPT ![c] = NoItem]]
    IN  IF NameUnchanged(cached, key, displayName)
        THEN /\ lastCall' = call
             /\ UNCHANGED cacheStorage
        ELSE IF ~storageWritable
        THEN \* setItem throws; the catch swallows it before the dispatch
             /\ lastCall' = [call EXCEPT !.threw = TRUE]
             /\ UNCHANGED cacheStorage
        ELSE /\ cacheStorage' = [cacheStorage EXCEPT ![c] = Item(stringify(updated))]
             /\ lastCall' = [call EXCEPT !.wrote = TRUE, !.events[c] = 1]

cacheModelName(family, displayName) ==
    /\ CacheInto("claude", family, displayName)
    /\ UNCHANGED <<storageWritable, outsideCache>>

cacheCodexModelName(modelId, displayName) ==
    /\ CacheInto("codex", modelId, displayName)
    /\ UNCHANGED <<storageWritable, outsideCache>>

cacheGeminiModelName(modelId, displayName) ==
    /\ CacheInto("gemini", modelId, displayName)
    /\ UNCHANGED <<storageWritable, outsideCache>>

\* The storage quota is reached, or room is made again.
StorageFills ==
    /\ storageWritable
    /\ storageWritable' = FALSE
    /\ UNCHANGED <<cacheStorage, lastCall, outsideCache>>

StorageFrees ==
    /\ ~storageWritable
    /\ storageWritable' = TRUE
    /\ UNCHANGED <<cacheStorage, lastCall, outsideCache>>

InitCache ==
    /\ IdleCache
    /\ IdleUsage
    /\ IdleFormat
    /\ IdleTheme
    /\ IdleSync
    /\ IdleHooks

NextCache ==
    \/ \E k \in CacheKeys, n \in DisplayNames : cacheModelName(k, n)
    \/ \E k \in CacheKeys, n \in DisplayNames : cacheCodexModelName(k, n)
    \/ \E k \in CacheKeys, n \in DisplayNames : cacheGeminiModelName(k, n)
    \/ StorageFills
    \/ StorageFrees

SpecCache == InitCache /\ [][NextCache]_vars

(***************************************************************************)
(* useSessionSync: the polling passes, the claude-session-state listener   *)
(* and the tabs they reconcile.                                            *)
(***************************************************************************)
\* The tabs restored: which sessions and paths they have. Their state is
\* whatever was saved, stale or not.
TabLayouts ==
    { \* a new tab, and the tab of a session of the same project
      <<Tab(NoSession, UnixPath, "idle"),
        Tab(Session("s1", WinPath), NoPath, "idle")>>,
      \* the tabs of two sessions of the same project
      <<Tab(Session("s2", NoPath), UnixPath, "idle"),
        Tab(Session("s1", NoPath), WinPath, "idle")>> }

\* The project path an event of the session carries, when it carries one.
ProjectOf(id) == IF id = "s1" THEN WinPath ELSE UnixPath

\* p.replace(/\\/g, '/')
Slashed(c) == IF c = "\\" THEN "/" ELSE c
\* toLowerCase, on the letters used here
Lower(c) == IF c = "C" THEN "c" ELSE IF c = "P" THEN "p" ELSE c
\* replace(/\/+$/, '')
RECURSIVE StripTrailing(_)
StripTrailing(p) ==
    IF p # <<>> /\ p[Len(p)] = "/" THEN StripTrailing(SubSeq(p, 1, Len(p) - 1)) ELSE p

normalizePath(p) == StripTrailing([i \in 1..Len(p) |-> Lower(Slashed(p[i]))])

\* The answer of listRunningClaudeSessions: the running Claude sessions
\* among processes of other types.
ClaudeProcess(id) == [process_type |-> "ClaudeSession", session_id |-> id]
OtherProcess == [process_type |-> "AgentRun", session_id |-> "s1"]
listRunningClaudeSessions(ids) == {ClaudeProcess(id) : id \in ids} \cup {OtherProcess}

runningSessionIds(activeSessions) ==
    {p.session_id : p \in {q \in activeSessions :
                              q.process_type = "ClaudeSession" /\ q.session_id # ""}}

\* useTabs: the tab is marked streaming or idle.
updateTabStreamingStatus(all, tabId, isStreaming, sessionId) ==
    [all EXCEPT ![tabId].state = IF isStreaming THEN "streaming" ELSE "idle"]

\* Array.prototype.find over the tabs: the first that qualifies.
FirstTab(candidates) ==
    IF candidates = {} THEN NoTab
    ELSE CHOOSE t \in candidates : \A u \in candidates : t <= u

\* Variant: the pass marks running sessions streaming and never marks a tab
\* idle.
Reconciled_neverIdle(tab, isRunning) ==
    IF isRunning /\ tab.state # "streaming" THEN "streaming" ELSE "keep"

\* What a polling pass asks for a tab with a session id: streaming, idle,
\* or nothing ("keep").
Reconciled(tab, isRunning) ==
    IF isRunning /\ tab.state # "streaming" THEN "streaming"
    ELSE IF ~isRunning /\ tab.state = "streaming" THEN "idle"
    ELSE "keep"

\* The loop of the pass over tabsRef.current.
ReconcileAll(all, ref, ids) ==
    [t \in TabIds |->
        IF ref[t].session.id = "" THEN all[t]
        ELSE LET ask == Reconciled(ref[t], ref[t].session.id \in ids) IN
             IF ask = "streaming"
             THEN updateTabStreamingStatus(all, t, TRUE, ref[t].session.id)[t]
             ELSE IF ask = "idle"
             THEN updateTabStreamingStatus(all, t, FALSE, "")[t]
             ELSE all[t]]

InitSync ==
    /\ \E layout \in TabLayouts, states \in [TabIds -> {"idle", "streaming"}] :
          tabs = [t \in TabIds |-> [layout[t] EXCEPT !.state = states[t]]]
    /\ tabsRef = tabs
    /\ running \in SUBSET SessionIds
    /\ pendingEvent = NoEvent
    /\ initialTimer = "armed"
    /\ intervalId = "armed"
    /\ inFlight = NoRequest
    /\ cancelled = FALSE
    /\ unlisten = "pending"
    /\ settled = FALSE
    /\ lastHandled = "none"
    /\ IdleUsage
    /\ IdleFormat
    /\ IdleTheme
    /\ IdleCache
    /\ IdleHooks

\* syncRunningState up to its await: the call is issued and the backend
\* answers with the sessions running now; the answer arrives later.
IssueCall ==
    inFlight' = [active |-> TRUE,
                 activeSessions |-> listRunningClaudeSessions(running),
                 startedSince |-> {}]

\* The timers fire while no call is awaited: a call answers well within
\* the 30 s between two passes.
InitialTimerFires ==
    /\ initialTimer = "armed"
    /\ ~inFlight.active
    /\ initialTimer' = "fired"
    /\ IF cancelled THEN UNCHANGED inFlight ELSE IssueCall
    /\ UNCHANGED <<tabs, tabsRef, running, pendingEvent, intervalId, cancelled,
                   unlisten, settled, lastHandled, outsideSync>>

IntervalFires ==
    /\ intervalId = "armed"
    /\ ~inFlight.active
    /\ IF cancelled THEN UNCHANGED inFlight ELSE IssueCall
    /\ UNCHANGED <<tabs, tabsRef, running, pendingEvent, initialTimer, intervalId,
                   cancelled, unlisten, settled, lastHandled, outsideSync>>

\* Variant: the continuation does not look at cancelled.
ContinuesAfterAwait_always(isCancelled) == TRUE

\* "if (cancelled) return" after the await.
ContinuesAfterAwait(isCancelled) == ~isCancelled

\* The call resolves: the rest of syncRunningState runs.
PollResolves ==
    /\ inFlight.active
    /\ inFlight' = NoRequest
    /\ IF ContinuesAfterAwait(cancelled)
       THEN /\ tabs' = ReconcileAll(tabs, tabsRef,
                                    runningSessionIds(inFlight.activeSessions))
            /\ lastHandled' = "reconciled"
       ELSE /\ UNCHANGED tabs
            /\ lastHandled' = "cancelled"
    /\ UNCHANGED <<tabsRef, running, pendingEvent, initialTimer, intervalId,
                   cancelled, unlisten, settled, outsideSync>>

\* Variant: a failed pass stops the polling.
AfterSyncError_stops(interval) == "cleared"

\* The catch block logs the error and touches nothing: the interval stays.
AfterSyncError(interval) == interval

\* The call rejects: the catch block runs.
PollRejects ==
    /\ inFlight.active
    /\ ~settled
    /\ inFlight' = NoRequest
    /\ intervalId' = AfterSyncError(intervalId)
    /\ lastHandled' = "rejected"
    /\ UNCHANGED <<tabs, tabsRef, running, pendingEvent, initialTimer, cancelled,
                   unlisten, settled, outsideSync>>

\* The effect that keeps tabsRef.current up to date, after a render with
\* new tabs.
RefreshRef ==
    /\ ~cancelled
    /\ tabsRef # tabs
    /\ tabsRef' = tabs
    /\ UNCHANGED <<tabs, running, pendingEvent, initialTimer, intervalId, inFlight,
                   cancelled, unlisten, settled, lastHandled, outsideSync>>

\* The events a change of the session may emit: none (missed), or one with
\* or without the project path.
EventsOf(id, status) ==
    {NoEvent, Event(id, status, NoPath), Event(id, status, ProjectOf(id))}

\* The event is on its way when the listener is registered and no other
\* event is.
Emit(ev) ==
    IF ev.present
    THEN unlisten = "set" /\ ~pendingEvent.present /\ pendingEvent' = ev
    ELSE UNCHANGED pendingEvent

SessionStarts(id, ev) ==
    /\ ~settled
    /\ id \notin running
    /\ running' = running \cup {id}
    /\ Emit(ev)
    /\ UNCHANGED <<tabs, tabsRef, initialTimer, intervalId, inFlight, cancelled,
                   unlisten, settled, lastHandled, outsideSync>>

SessionStops(id, ev) ==
    /\ ~settled
    /\ id \in running
    /\ running' = running \ {id}
    /\ Emit(ev)
    /\ UNCHANGED <<tabs, tabsRef, initialTimer, intervalId, inFlight, cancelled,
                   unlisten, settled, lastHandled, outsideSync>>

\* The backend stops changing and its API answers from now on.
Settle ==
    /\ ~settled
    /\ settled' = TRUE
    /\ UNCHANGED <<tabs, tabsRef, running, pendingEvent, initialTimer, intervalId,
                   inFlight, cancelled, unlisten, lastHandled, outsideSync>>

\* Variant: the fallback takes any tab of the project.
EligibleByPath_anyTab(tab) == TRUE

\* "if (!t.session) return false": the fallback skips the new tabs.
EligibleByPath(tab) == tab.session.present

\* t.projectPath || t.session?.project_path
tabProjectPath(tab) ==
    IF tab.projectPath # NoPath THEN tab.projectPath ELSE tab.session.project_path

\* The tab the handler finds for the event: by session id, else by path.
findTab(ref, ev) ==
    LET byId == FirstTab({t \in TabIds : ref[t].session.present
                                          /\ ref[t].session.id = ev.session_id})
        byPath == FirstTab({t \in TabIds :
                              /\ EligibleByPath(ref[t])
                              /\ tabProjectPath(ref[t]) # NoPath
                              /\ normalizePath(tabProjectPath(ref[t]))
                                     = normalizePath(ev.project_path)})
    IN  IF byId # NoTab THEN [found |-> TRUE, tab |-> byId, byPath |-> FALSE]
        ELSE IF ev.project_path # NoPath /\ byPath # NoTab
        THEN [found |-> TRUE, tab |-> byPath, byPath |-> TRUE]
        ELSE NoMatch

\* The listener's callback handles the event.
HandleEvent ==
    /\ pendingEvent.present
    /\ unlisten = "set"
    /\ pendingEvent' = NoEvent
    /\ LET ev == pendingEvent
           match == findTab(tabsRef, ev)
           tab == match.tab
       IN  /\ lastHandled' = IF ~match.found THEN "noTab"
                             ELSE IF match.byPath THEN "byPath" ELSE "byId"
           /\ tabs' =
                IF ~match.found THEN tabs
                ELSE IF ev.status = "started" /\ tabsRef[tab].state # "streaming"
                THEN updateTabStreamingStatus(tabs, tab, TRUE, ev.session_id)
                ELSE IF ev.status = "stopped" /\ tabsRef[tab].state = "streaming"
                THEN updateTabStreamingStatus(tabs, tab, FALSE, "")
                ELSE tabs
           /\ inFlight' =
                IF ~inFlight.active \/ ~match.found THEN inFlight
                ELSE IF ev.status = "started" /\ tabs'[tab].state = "streaming"
                THEN [inFlight EXCEPT !.startedSince = @ \cup {tab}]
                ELSE [inFlight EXCEPT !.startedSince = @ \ {tab}]
    /\ UNCHANGED <<tabsRef, running, initialTimer, intervalId, cancelled, unlisten,
                   settled, outsideSync>>

\* listen() resolves: the listener is registered and unlisten is set.
ListenerRegistered ==
    /\ unlisten = "pending"
    /\ unlisten' = "set"
    /\ UNCHANGED <<tabs, tabsRef, running, pendingEvent, initialTimer, intervalId,
                   inFlight, cancelled, settled, lastHandled, outsideSync>>

\* The cleanups of the effects: cancelled is set, both timers are cleared,
\* unlisten is called when it is set.
Unmount ==
    /\ ~cancelled
    /\ cancelled' = TRUE
    /\ initialTimer' = IF initialTimer = "armed" THEN "cleared" ELSE initialTimer
    /\ intervalId' = "cleared"
    /\ unlisten' = IF unlisten = "set" THEN "called" ELSE unlisten
    /\ pendingEvent' = IF unlisten = "set" THEN NoEvent ELSE pendingEvent
    /\ UNCHANGED <<tabs, tabsRef, running, inFlight, settled, lastHandled,
                   outsideSync>>

NextSync ==
    \/ InitialTimerFires
    \/ IntervalFires
    \/ PollResolves
    \/ PollRejects
    \/ RefreshRef
    \/ \E id \in SessionIds : \E ev \in EventsOf(id, "started") : SessionStarts(id, ev)
    \/ \E id \in SessionIds : \E ev \in EventsOf(id, "stopped") : SessionStops(id, ev)
    \/ Settle
    \/ HandleEvent
    \/ ListenerRegistered
    \/ Unmount

SpecSync == InitSync /\ [][NextSync]_vars

\* The timers fire, a call gets its answer, the effect that refreshes
\* tabsRef runs.
SpecSyncFair ==
    /\ SpecSync
    /\ WF_vars(IntervalFires)
    /\ WF_vars(PollResolves)
    /\ WF_vars(RefreshRef)

(***************************************************************************)
(* useSmartAutoScroll: the scroll listener, the programmatic scrolls and   *)
(* the timeouts, intervals and animation frames of its effects.  The       *)
(* record autoScroll holds the state (userScrolled, shouldAutoScroll), the *)
(* props (isLoading, the count and the content of the messages), the       *)
(* geometry (distance from the bottom), the refs and what is scheduled:    *)
(* timeoutId and timeoutFrame of the new-message effect, rafId of the      *)
(* streaming loop, intervalId, ticks and intervalFrame of the sticky-      *)
(* bottom effect, frameId of the hash effect.  scrolledTo records that the *)
(* last step called scrollTo.                                              *)
(***************************************************************************)
MaxScrollMsgs == 2

ScrollDistances == {0, 150, 151, 400}

isAtBottom_strict(distanceFromBottom) == distanceFromBottom < 150

isAtBottom(distanceFromBottom) == distanceFromBottom <= 150

flagTimeout(behavior) == IF behavior = "smooth" THEN 300 ELSE 80

\* performAutoScroll: when the element is more than 1 px from the target it
\* raises the flag, re-arms the flag timer and scrolls to the bottom, which
\* queues a scroll event.
performAutoScroll(w, behavior) ==
    IF w.mounted /\ w.distance > 1
    THEN [w EXCEPT !.isAutoScrollingRef = TRUE,
                   !.autoScrollTimerRef = flagTimeout(behavior),
                   !.distance = 0,
                   !.scrollEvent = TRUE,
                   !.scrolledTo = TRUE]
    ELSE w

lastMessageHash(w) == <<w.count, w.content>>

Following(w) == w.shouldAutoScroll /\ ~w.userScrolled

StateChanged(prev, w) ==
    \/ prev.shouldAutoScroll # w.shouldAutoScroll
    \/ prev.userScrolled # w.userScrolled

\* The effect on [lastMessageHash, shouldAutoScroll, userScrolled]: its
\* cleanup clears the timeout, its body arms a new one.
EffectNewMessage(prev, w) ==
    IF lastMessageHash(prev) # lastMessageHash(w) \/ StateChanged(prev, w)
    THEN [w EXCEPT !.timeoutId = (w.count > 0 /\ Following(w))]
    ELSE w

\* The effect on [isLoading, shouldAutoScroll, userScrolled]: its cleanup
\* cancels the frame of the loop, its body scrolls at once and starts a loop.
EffectStreaming(prev, w) ==
    IF prev.isLoading # w.isLoading \/ StateChanged(prev, w)
    THEN IF w.isLoading /\ Following(w)
         THEN [performAutoScroll(w, "auto") EXCEPT !.rafId = TRUE]
         ELSE [w EXCEPT !.rafId = FALSE]
    ELSE w

\* The sticky-bottom effect on [lastMessageHash, isLoading, shouldAutoScroll,
\* userScrolled, length]: its cleanup clears the interval, its body starts
\* one with ticks = 0.
EffectStickyBottom(prev, w) ==
    IF \/ lastMessageHash(prev) # lastMessageHash(w)
       \/ prev.isLoading # w.isLoading
       \/ StateChanged(prev, w)
    THEN [w EXCEPT !.intervalId = (~w.isLoading /\ Following(w) /\ w.count > 0),
                   !.ticks = 0]
    ELSE w

\* The effect on [lastMessageHash]: its cleanup cancels the frame, its body
\* requests one.
EffectHashChange(prev, w) ==
    IF lastMessageHash(prev) # lastMessageHash(w)
    THEN [w EXCEPT !.frameId = (Following(w) /\ w.count > 0)]
    ELSE w

Commit(prev, w) ==
    EffectHashChange(prev,
        EffectStickyBottom(prev,
            EffectStreaming(prev,
                EffectNewMessage(prev, w))))

\* The effect on [length]: a new message that arrives within 300 px of the
\* bottom turns auto-scroll back on.
NewMessageNearBottom(prev, w) ==
    /\ w.count > prev.count
    /\ prev.count > 0
    /\ w.distance <= 300

\* One render with its effects, and the second render that the effect on
\* the message count causes when it sets the state.
RenderScroll(prev, w) ==
    LET first == Commit(prev, w)
        second == [first EXCEPT !.userScrolled = FALSE,
                                !.shouldAutoScroll = TRUE]
    IN  IF NewMessageNearBottom(prev, w) /\ ~Following(w)
        THEN Commit(first, second)
        ELSE first

Fresh == [autoScroll EXCEPT !.scrolledTo = FALSE]

InitScroll ==
    /\ IdleScroll
    /\ IdleUsage
    /\ IdleFormat
    /\ IdleTheme
    /\ IdleCache
    /\ IdleSync
    /\ IdleCompact
    /\ IdlePlugin
    /\ IdleCodex

\* A message is appended; the content grows below the viewport.
NewMessage ==
    /\ autoScroll.mounted
    /\ autoScroll.count < MaxScrollMsgs
    /\ \E d \in ScrollDistances :
          /\ d >= autoScroll.distance
          /\ autoScroll' = RenderScroll(Fresh, [Fresh EXCEPT !.count = @ + 1,
                                                             !.content = 0,
                                                             !.distance = d])
    /\ lastStep' = "render"
    /\ UNCHANGED outsideScroll

\* The last message grows (streaming).
ContentChanges ==
    /\ autoScroll.mounted
    /\ autoScroll.count > 0
    /\ \E d \in ScrollDistances :
          /\ d >= autoScroll.distance
          /\ autoScroll' = RenderScroll(Fresh, [Fresh EXCEPT !.content = 1 - @,
                                                             !.distance = d])
    /\ lastStep' = "render"
    /\ UNCHANGED outsideScroll

SetLoading ==
    /\ autoScroll.mounted
    /\ autoScroll' = RenderScroll(Fresh, [Fresh EXCEPT !.isLoading = ~@])
    /\ lastStep' = "render"
    /\ UNCHANGED outsideScroll

\* The caller uses the setters the hook returns to turn auto-scroll back on.
EnableAutoScroll ==
    /\ autoScroll.mounted
    /\ ~Following(autoScroll)
    /\ autoScroll' = RenderScroll(Fresh, [Fresh EXCEPT !.userScrolled = FALSE,
                                                       !.shouldAutoScroll = TRUE])
    /\ lastStep' = "enable"
    /\ UNCHANGED outsideScroll

\* The user scrolls the element; the browser queues a scroll event.
UserScrolls ==
    /\ autoScroll.mounted
    /\ \E d \in ScrollDistances \ {autoScroll.distance} :
          autoScroll' = [Fresh EXCEPT !.distance = d, !.scrollEvent = TRUE]
    /\ lastStep' = "user"
    /\ UNCHANGED outsideScroll

IgnoresScroll_never(w) == FALSE

IgnoresScroll(w) == w.isAutoScrollingRef

\* handleScroll, followed by the render its state updates cause.
handleScroll ==
    /\ autoScroll.mounted
    /\ autoScroll.scrollEvent
    /\ LET w == [Fresh EXCEPT !.scrollEvent = FALSE]
       IN  autoScroll' =
              IF IgnoresScroll(w)
              THEN w
              ELSE IF ~isAtBottom(w.distance)
                   THEN RenderScroll(w, [w EXCEPT !.userScrolled = TRUE,
                                                  !.shouldAutoScroll = FALSE])
                   ELSE RenderScroll(w, [w EXCEPT !.userScrolled = FALSE,
                                                  !.shouldAutoScroll = TRUE])
    /\ lastStep' = "handleScroll"
    /\ UNCHANGED outsideScroll

\* The timeout armed by performAutoScroll lowers the flag.
FlagTimerFires ==
    /\ autoScroll.autoScrollTimerRef # NoTimer
    /\ autoScroll' = [Fresh EXCEPT !.isAutoScrollingRef = FALSE,
                                   !.autoScrollTimerRef = NoTimer]
    /\ lastStep' = "timer"
    /\ UNCHANGED outsideScroll

\* The 100 ms timeout of the new-message effect requests a frame.
NewMessageTimeoutFires ==
    /\ autoScroll.timeoutId
    /\ autoScroll' = [Fresh EXCEPT !.timeoutId = FALSE, !.timeoutFrame = TRUE]
    /\ lastStep' = "timer"
    /\ UNCHANGED outsideScroll

NewMessageFrameRuns ==
    /\ autoScroll.timeoutFrame
    /\ autoScroll' = performAutoScroll([Fresh EXCEPT !.timeoutFrame = FALSE],
                                       "smooth")
    /\ lastStep' = "frame"
    /\ UNCHANGED outsideScroll

\* tick of the streaming loop: it scrolls when 100 ms have passed since its
\* last scroll, and requests the next frame.
StreamingTick ==
    /\ autoScroll.rafId
    /\ \E due \in BOOLEAN :
          autoScroll' = IF due THEN performAutoScroll(Fresh, "auto") ELSE Fresh
    /\ lastStep' = "frame"
    /\ UNCHANGED outsideScroll

StickyDone_never(ticks) == FALSE

StickyDone(ticks) == ticks >= 8

\* One tick of the sticky-bottom interval.
StickyTick ==
    /\ autoScroll.intervalId
    /\ autoScroll' = [Fresh EXCEPT !.ticks = @ + 1,
                                   !.intervalFrame = TRUE,
                                   !.intervalId = ~StickyDone(autoScroll.ticks + 1)]
    /\ lastStep' = "timer"
    /\ UNCHANGED outsideScroll

StickyFrameRuns ==
    /\ autoScroll.intervalFrame
    /\ autoScroll' = performAutoScroll([Fresh EXCEPT !.intervalFrame = FALSE],
                                       "auto")
    /\ lastStep' = "frame"
    /\ UNCHANGED outsideScroll

HashFrameRuns ==
    /\ autoScroll.frameId
    /\ autoScroll' = performAutoScroll([Fresh EXCEPT !.frameId = FALSE],
                                       "smooth")
    /\ lastStep' = "frame"
    /\ UNCHANGED outsideScroll

\* The cleanups of all effects: the listener is removed, the flag timer,
\* the timeout, the interval and the frames the effects hold are cancelled.
UnmountScroll ==
    /\ autoScroll.mounted
    /\ autoScroll' = [Fresh EXCEPT !.mounted = FALSE,
                                   !.autoScrollTimerRef = NoTimer,
                                   !.timeoutId = FALSE,
                                   !.rafId = FALSE,
                                   !.intervalId = FALSE,
                                   !.frameId = FALSE]
    /\ lastStep' = "unmount"
    /\ UNCHANGED outsideScroll

NextScroll ==
    \/ NewMessage
    \/ ContentChanges
    \/ SetLoading
    \/ EnableAutoScroll
    \/ UserScrolls
    \/ handleScroll
    \/ FlagTimerFires
    \/ NewMessageTimeoutFires
    \/ NewMessageFrameRuns
    \/ StreamingTick
    \/ StickyTick
    \/ StickyFrameRuns
    \/ HashFrameRuns
    \/ UnmountScroll

SpecScroll == InitScroll /\ [][NextScroll]_vars

SpecScrollFair == SpecScroll /\ WF_vars(StickyTick)

(***************************************************************************)
(* useAutoCompactStatus: the effect that registers the auto-compact-event  *)
(* listener, its cleanup, and the listener.  unlisten is the variable of   *)
(* the current activation of the effect: "pending" while listen is         *)
(* awaited, "set" once it resolved, "null" when it was rejected.  A        *)
(* cleanup that runs while listen is awaited finds unlisten null and       *)
(* removes nothing: the call is left in orphans and, once it resolves, its *)
(* listener stays registered (leaked) with the sessionId of its closure.   *)
(* fired counts the callbacks the last step invoked.  Of the nullable      *)
(* payload fields, progress and tokens_after are modelled; message and     *)
(* tokens_before are handled by the same operator in the source.           *)
(***************************************************************************)
MaxCompactions == 2

CompactionEventTypes == {"started", "in_progress", "completed", "failed"}

CompactionEvents ==
    [session_id : CompactSessions,
     event_type : CompactionEventTypes,
     progress : {NullField, 0, 50},
     tokens_after : {NullField, 7}]

\* a ?? b
Coalesce(a, b) == IF a = NullField THEN b ELSE a

PassesFilter(sessionId, payload) == payload.session_id = sessionId

\* The listener registered by an activation whose sessionId was sessionId,
\* applied to the hook c: the filter, the status update, the callback and
\* the count of a completed compaction.
compactListener(c, sessionId, payload) ==
    IF ~PassesFilter(sessionId, payload)
    THEN c
    ELSE LET eventType == payload.event_type
             prev == c.status
         IN  [c EXCEPT
                !.status =
                    [eventType |-> eventType,
                     progress |-> Coalesce(payload.progress, prev.progress),
                     tokensAfter |-> Coalesce(payload.tokens_after,
                                              prev.tokensAfter),
                     isCompacting |-> eventType \in {"started", "in_progress"},
                     compactionCount |-> IF eventType = "completed"
                                         THEN prev.compactionCount + 1
                                         ELSE prev.compactionCount],
                !.fired = IF eventType = "in_progress" THEN @ ELSE @ + 1]

\* The event passes through every listener in the given set of closures.
RECURSIVE DeliverTo(_, _, _)
DeliverTo(c, closures, payload) ==
    IF closures = {}
    THEN c
    ELSE LET sessionId == CHOOSE x \in closures : TRUE
         IN  DeliverTo(compactListener(c, sessionId, payload),
                       closures \ {sessionId}, payload)

\* What the backend's event does to the hook: the leaked listeners run,
\* then the listener of the current activation when it is registered.
Deliver(c, payload) ==
    LET afterLeaked == DeliverTo([c EXCEPT !.fired = 0], c.leaked, payload)
    IN  IF c.unlisten = "set"
        THEN compactListener(afterLeaked, c.sessionId, payload)
        ELSE afterLeaked

\* The cleanup of the effect, then its body for the session of the render.
RerunListenerEffect(c, sessionId) ==
    [c EXCEPT !.sessionId = sessionId,
              !.unlisten = "pending",
              !.orphans = IF c.unlisten = "pending"
                          THEN @ \cup {c.sessionId}
                          ELSE @,
              !.fired = 0]

InitCompact ==
    /\ IdleCompact
    /\ IdleUsage
    /\ IdleFormat
    /\ IdleTheme
    /\ IdleCache
    /\ IdleSync
    /\ IdleScroll
    /\ IdlePlugin
    /\ IdleCodex

\* The backend emits an auto-compact-event.
EmitCompaction ==
    /\ autoCompact.status.compactionCount < MaxCompactions
    /\ \E payload \in CompactionEvents :
          autoCompact' = Deliver(autoCompact, payload)
    /\ UNCHANGED outsideCompact

\* The component is rendered for another session.
SessionIdChanges ==
    /\ \E sessionId \in CompactSessions \ {autoCompact.sessionId} :
          autoCompact' = RerunListenerEffect(autoCompact, sessionId)
    /\ UNCHANGED outsideCompact

\* The component is rendered with new callback functions: the dependencies
\* of the effect change, the session does not.
CallbacksChange ==
    /\ autoCompact' = RerunListenerEffect(autoCompact, autoCompact.sessionId)
    /\ UNCHANGED outsideCompact

\* listen resolves for the current activation.
ListenResolves ==
    /\ autoCompact.unlisten = "pending"
    /\ autoCompact' = [autoCompact EXCEPT !.unlisten = "set", !.fired = 0]
    /\ UNCHANGED outsideCompact

\* listen rejects for the current activation; the error is logged.
ListenRejects ==
    /\ autoCompact.unlisten = "pending"
    /\ autoCompact' = [autoCompact EXCEPT !.unlisten = "null", !.fired = 0]
    /\ UNCHANGED outsideCompact

\* listen resolves for an activation whose cleanup has already run.
OrphanResolves ==
    /\ \E sessionId \in autoCompact.orphans :
          autoCompact' = [autoCompact EXCEPT !.orphans = @ \ {sessionId},
                                             !.leaked = @ \cup {sessionId},
                                             !.fired = 0]
    /\ UNCHANGED outsideCompact

NextCompact ==
    \/ EmitCompaction
    \/ SessionIdChanges
    \/ CallbacksChange
    \/ ListenResolves
    \/ ListenRejects
    \/ OrphanResolves

SpecCompact == InitCompact /\ [][NextCompact]_vars

(***************************************************************************)
(* usePluginSlashCommands: loadPluginCommands builds the list of slash     *)
(* commands from the answers of list_plugins and list_agent_skills.  Names *)
(* are sequences of characters, so that '<plugin>:<item>' is a             *)
(* concatenation.                                                          *)
(***************************************************************************)
MaxPlugins == 2

MaxSkills == 2

PluginNames == {<<"p">>, <<"q">>}

ItemLists == {<<>>, <<[name |-> <<"x">>]>>}

\* The names a standalone skill file may carry; one of them reads like a
\* plugin item.
SkillNames == {<<"x">>, <<"p", ":", "x">>}

PluginInfos ==
    [name : PluginNames, enabled : BOOLEAN,
     skillList : ItemLists, commandList : ItemLists]

AgentSkillFiles == [name : SkillNames]

\* `${plugin.name}:${item.name}`
commandName(plugin, item) == plugin.name \o <<":">> \o item.name

SlashCommand(name) == [name |-> name, category |-> "plugin"]

\* The commands one plugin contributes: its skills, then its commands.
CommandsOfPlugin(plugin) ==
    IF ~plugin.enabled
    THEN <<>>
    ELSE [i \in 1..Len(plugin.skillList) |->
              SlashCommand(commandName(plugin, plugin.skillList[i]))]
         \o [i \in 1..Len(plugin.commandList) |->
              SlashCommand(commandName(plugin, plugin.commandList[i]))]

RECURSIVE CommandsOfPlugins(_)
CommandsOfPlugins(plugins) ==
    IF plugins = <<>>
    THEN <<>>
    ELSE CommandsOfPlugin(Head(plugins)) \o CommandsOfPlugins(Tail(plugins))

\* The loop over the standalone skills: a skill whose name is in addedNames
\* is skipped, any other is pushed and its name added.
RECURSIVE AddStandaloneSkills(_, _, _)
AddStandaloneSkills(commands, addedNames, skills) ==
    IF skills = <<>>
    THEN commands
    ELSE LET skill == Head(skills)
         IN  IF skill.name \in addedNames
             THEN AddStandaloneSkills(commands, addedNames, Tail(skills))
             ELSE AddStandaloneSkills(Append(commands, SlashCommand(skill.name)),
                                      addedNames \cup {skill.name},
                                      Tail(skills))

\* The list loadPluginCommands sets from the two answers.
BuildCommands(plugins, skills) ==
    LET commands == CommandsOfPlugins(plugins)
        addedNames == {commands[i].name : i \in 1..Len(commands)}
    IN  AddStandaloneSkills(commands, addedNames, skills)

\* Any answers the backend can give, and the enabled option of the hook.
InitPlugin ==
    /\ \E plugins \in SeqsUpTo(PluginInfos, MaxPlugins),
          skills \in SeqsUpTo(AgentSkillFiles, MaxSkills),
          enabled \in BOOLEAN :
          pluginSlash = [PluginAtRest EXCEPT !.plugins = plugins,
                                             !.skills = skills,
                                             !.enabled = enabled]
    /\ IdleUsage
    /\ IdleFormat
    /\ IdleTheme
    /\ IdleCache
    /\ IdleSync
    /\ IdleScroll
    /\ IdleCompact
    /\ IdleCodex

\* loadPluginCommands up to its await; when the hook is disabled it sets
\* the empty list and returns.
loadPluginCommands ==
    /\ pluginSlash.phase = "idle"
    /\ pluginSlash' =
          IF ~pluginSlash.enabled
          THEN [pluginSlash EXCEPT !.pluginCommands = <<>>, !.phase = "done"]
          ELSE [pluginSlash EXCEPT !.isLoading = TRUE, !.phase = "awaiting"]
    /\ UNCHANGED outsidePlugin

\* Both invokes have settled; one that rejected counts as an empty answer.
InvokesSettle ==
    /\ pluginSlash.phase = "awaiting"
    /\ \E pluginsOk \in BOOLEAN, skillsOk \in BOOLEAN :
          pluginSlash' =
             [pluginSlash EXCEPT
                !.pluginCommands =
                    BuildCommands(IF pluginsOk THEN pluginSlash.plugins ELSE <<>>,
                                  IF skillsOk THEN pluginSlash.skills ELSE <<>>),
                !.isLoading = FALSE,
                !.phase = "done"]
    /\ UNCHANGED outsidePlugin

NextPlugin ==
    \/ loadPluginCommands
    \/ InvokesSettle

SpecPlugin == InitPlugin /\ [][NextPlugin]_vars

(***************************************************************************)
(* GeneralSettings: the custom Codex path form.  Paths are sequences of    *)
(* characters, so that trim does something.  setting is the call of        *)
(* handleSetCodexCustomPath in flight: the path of its closure, the        *)
(* argument of the api call it awaits and whether that call is             *)
(* validateCodexPath ("validating") or setCodexCustomPath ("saving").      *)
(* validating is the call of handleValidateCodexPath in flight.  saved is  *)
(* the custom path the backend holds.  outcome records how the last step   *)
(* ended a call of handleSetCodexCustomPath, if it did.                    *)
(***************************************************************************)
CodexPaths == {<<>>, <<" ">>, <<"c">>, <<" ", "c">>, <<"d", " ">>}

\* The paths at which the backend finds a Codex executable.
CodexOnDisk == {<<"c">>}

RECURSIVE trimStart(_)
trimStart(s) ==
    IF s # <<>> /\ Head(s) = " " THEN trimStart(Tail(s)) ELSE s

RECURSIVE trimEnd(_)
trimEnd(s) ==
    IF s # <<>> /\ s[Len(s)] = " "
    THEN trimEnd(SubSeq(s, 1, Len(s) - 1))
    ELSE s

trim(s) == trimEnd(trimStart(s))

\* api.validateCodexPath when it answers.
validateCodexPath(path) == path \in CodexOnDisk

PathAccepted_always(isValid) == TRUE

PathAccepted(isValid) == isValid

\* disabled={!customCodexPath.trim() || validatingCodexPath}
SetButtonEnabled(c) ==
    /\ c.isCodexCustomPathMode
    /\ trim(c.customCodexPath) # <<>>
    /\ ~c.validatingCodexPath

\* handleSetCodexCustomPath up to its first await.
SetClicked(c) ==
    IF trim(c.customCodexPath) = <<>>
    THEN [c EXCEPT !.codexPathError = "enterValidPath", !.outcome = "blank"]
    ELSE [c EXCEPT !.validatingCodexPath = TRUE,
                   !.setting = [phase |-> "validating",
                                path |-> c.customCodexPath,
                                arg |-> trim(c.customCodexPath)],
                   !.outcome = "none"]

Quiet == [codexSettings EXCEPT !.outcome = "none"]

InitCodex ==
    /\ IdleCodex
    /\ IdleUsage
    /\ IdleFormat
    /\ IdleTheme
    /\ IdleCache
    /\ IdleSync
    /\ IdleScroll
    /\ IdleCompact
    /\ IdlePlugin

\* The button that opens custom-path mode or cancels it.
ToggleCodexCustomMode ==
    /\ codexSettings' = [Quiet EXCEPT !.isCodexCustomPathMode = ~@,
                                      !.codexPathError = "null",
                                      !.customCodexPath = <<>>,
                                      !.codexPathValid = "null"]
    /\ UNCHANGED outsideCodex

\* onChange of the input.
TypeCodexPath ==
    /\ codexSettings.isCodexCustomPathMode
    /\ \E path \in CodexPaths \ {codexSettings.customCodexPath} :
          codexSettings' = [Quiet EXCEPT !.customCodexPath = path,
                                         !.codexPathError = "null",
                                         !.codexPathValid = "null"]
    /\ UNCHANGED outsideCodex

\* onBlur of the input: handleValidateCodexPath up to its await.
handleValidateCodexPath ==
    /\ codexSettings.isCodexCustomPathMode
    /\ trim(codexSettings.customCodexPath) # <<>>
    /\ codexSettings.validating.phase = "idle"
    /\ codexSettings' =
          [Quiet EXCEPT !.validatingCodexPath = TRUE,
                        !.validating = [phase |-> "validating",
                                        path |-> codexSettings.customCodexPath,
                                        arg |-> trim(codexSettings.customCodexPath)]]
    /\ UNCHANGED outsideCodex

\* handleValidateCodexPath after its await: the answer, or the throw.
BlurValidationSettles ==
    /\ codexSettings.validating.phase = "validating"
    /\ \E answers \in BOOLEAN :
          LET isValid == answers /\ validateCodexPath(codexSettings.validating.arg)
          IN  codexSettings' =
                 [Quiet EXCEPT
                    !.codexPathValid = IF isValid THEN "true" ELSE "false",
                    !.codexPathError =
                        IF ~answers THEN "codexPathValidationError"
                        ELSE IF isValid THEN "null" ELSE "codexPathInvalid",
                    !.validatingCodexPath = FALSE,
                    !.validating = NoCodexCall]
    /\ UNCHANGED outsideCodex

\* A click on the Set button.
handleSetCodexCustomPath ==
    /\ SetButtonEnabled(codexSettings)
    /\ codexSettings.setting.phase = "idle"
    /\ codexSettings' = SetClicked(Quiet)
    /\ UNCHANGED outsideCodex

\* handleSetCodexCustomPath after validateCodexPath settles: it throws, it
\* answers false, or it answers true and setCodexCustomPath is called.
SetValidationSettles ==
    /\ codexSettings.setting.phase = "validating"
    /\ \E answers \in BOOLEAN :
          LET call == codexSettings.setting
              isValid == validateCodexPath(call.arg)
          IN  codexSettings' =
                 IF ~answers
                 THEN [Quiet EXCEPT !.codexPathError = "failed",
                                    !.validatingCodexPath = FALSE,
                                    !.setting = NoCodexCall,
                                    !.outcome = "threw"]
                 ELSE IF ~PathAccepted(isValid)
                 THEN [Quiet EXCEPT !.codexPathError = "codexPathInvalid",
                                    !.codexPathValid = "false",
                                    !.validatingCodexPath = FALSE,
                                    !.setting = NoCodexCall,
                                    !.outcome = "invalid"]
                 ELSE [Quiet EXCEPT !.setting = [phase |-> "saving",
                                                 path |-> call.path,
                                                 arg |-> trim(call.path)]]
    /\ UNCHANGED outsideCodex

\* handleSetCodexCustomPath after setCodexCustomPath settles.
SaveSettles ==
    /\ codexSettings.setting.phase = "saving"
    /\ \E answers \in BOOLEAN :
          codexSettings' =
             IF answers
             THEN [Quiet EXCEPT !.saved = codexSettings.setting.arg,
                                !.codexPathValid = "true",
                                !.codexPathError = "null",
                                !.isCodexCustomPathMode = FALSE,
                                !.customCodexPath = <<>>,
                                !.validatingCodexPath = FALSE,
                                !.setting = NoCodexCall,
                                !.outcome = "saved"]
             ELSE [Quiet EXCEPT !.codexPathError = "failed",
                                !.validatingCodexPath = FALSE,
                                !.setting = NoCodexCall,
                                !.outcome = "saveFailed"]
    /\ UNCHANGED outsideCodex

\* handleClearCodexCustomPath: setCodexCustomPath(null), and when it
\* succeeds custom-path mode is left.
handleClearCodexCustomPath ==
    /\ codexSettings.isCodexCustomPathMode
    /\ \E answers \in BOOLEAN :
          codexSettings' =
             IF answers
             THEN [Quiet EXCEPT !.saved = <<>>,
                                !.isCodexCustomPathMode = FALSE,
                                !.customCodexPath = <<>>,
                                !.codexPathError = "null",
                                !.codexPathValid = "null"]
             ELSE Quiet
    /\ UNCHANGED outsideCodex

NextCodex ==
    \/ ToggleCodexCustomMode
    \/ TypeCodexPath
    \/ handleValidateCodexPath
    \/ BlurValidationSettles
    \/ handleSetCodexCustomPath
    \/ SetValidationSettles
    \/ SaveSettles
    \/ handleClearCodexCustomPath

SpecCodex == InitCodex /\ [][NextCodex]_vars

(***************************************************************************)
(* Properties of useContextWindowUsage.                                    *)
(***************************************************************************)
\* The messages passed to the hook at this state.
Passed == MsgsOf(ItemsOf(arrays, messagesRef))

Last(S) == CHOOSE i \in S : \A j \in S : j <= i

\* Every element of the list is a message or a primitive: none is null.
NoNullElement(items) == \A i \in DOMAIN items : items[i].t # "null"

CumulativeOf(msg) == normalizeUsageForIndicator(msg.codexMetadata.usage.o)
HasCumulative(msg) ==
    IsObject(msg.codexMetadata.usage) /\ NonZero(CumulativeOf(msg))
Snapshots(items) == {i \in DOMAIN items : HasCumulative(items[i])}

\* What a message contributes to the Codex delta sum.
Contribution(msg) ==
    IF msg.codexMetadata.codexItemType # ThreadTokenUsageUpdated /\ IsObject(msg.usage)
    THEN normalizeUsageForIndicator(msg.usage.o)
    ELSE ZeroUsage

RECURSIVE FieldSum(_, _, _)
FieldSum(items, f, n) ==
    IF n = 0 THEN 0 ELSE Contribution(items[n])[f] + FieldSum(items, f, n - 1)

DeltaTotal(items) ==
    [f \in {"inputTokens", "outputTokens", "cacheCreationTokens", "cacheReadTokens"} |->
        FieldSum(items, f, Len(items))]

\* The messages whose usage candidate carries data, for the engine given.
CandidateOf(msg) == getUsageCandidate(msg, engine).slot
WithData(items) ==
    {i \in DOMAIN items :
        /\ items[i].t # "null"
        /\ IsObject(CandidateOf(items[i]))
        /\ NonZero(normalizeUsageForIndicator(CandidateOf(items[i]).o))}

\* The messages that report a context window: a number above zero.
Reports(items) ==
    {i \in DOMAIN items :
        /\ items[i].codexMetadata.modelContextWindow.t = "number"
        /\ items[i].codexMetadata.modelContextWindow.n > 0}

ExpectedWindow(items) ==
    IF engine = "codex" /\ Reports(items) # {}
    THEN items[Last(Reports(items))].codexMetadata.modelContextWindow.n
    ELSE getContextWindowSize(model, engine)

\* C1: for engine codex, when some message carries a codexMetadata.usage
\* whose normalized form is non-zero, the breakdown is the normalized
\* codexMetadata.usage of the last such message, whatever delta usages lie
\* before or after it; nothing is added to it.
C1_CodexSnapshotWins ==
    (rendered /\ messagesRef # NullRef /\ engine = "codex"
        /\ Snapshots(Passed) # {})
    => /\ ~result.thrown
       /\ result.hasData
       /\ result.breakdown = CumulativeOf(Passed[Last(Snapshots(Passed))])

\* a snapshot with a delta usage before it and a delta usage after it
C1_Witness ==
    /\ rendered /\ engine = "codex" /\ messagesRef # NullRef
    /\ Len(Passed) = 3
    /\ Snapshots(Passed) = {2}
    /\ NonZero(Contribution(Passed[1]))
    /\ NonZero(Contribution(Passed[3]))
    /\ result.breakdown = CumulativeOf(Passed[2])

\* C2: for engine codex, when no message carries a non-zero
\* codexMetadata.usage, the extracted usage is the field-wise sum of the
\* normalized direct usage of the messages not tagged
\* thread_token_usage_updated; tagged messages add nothing; when nothing
\* non-zero is contributed the result is the no-data result.
C2_CodexDeltaSum ==
    (rendered /\ messagesRef # NullRef /\ engine = "codex"
        /\ NoNullElement(Passed) /\ Snapshots(Passed) = {})
    => /\ ~result.thrown
       /\ result.hasData = NonZero(DeltaTotal(Passed))
       /\ result.breakdown = DeltaTotal(Passed)

\* two contributing messages and a tagged message whose usage is left out
C2_Witness ==
    /\ rendered /\ engine = "codex" /\ messagesRef # NullRef
    /\ Snapshots(Passed) = {}
    /\ \E i, j, k \in DOMAIN Passed :
          /\ i # j
          /\ NonZero(Contribution(Passed[i]))
          /\ NonZero(Contribution(Passed[j]))
          /\ Passed[k].codexMetadata.codexItemType = ThreadTokenUsageUpdated
          /\ IsObject(Passed[k].usage)
          /\ NonZero(normalizeUsageForIndicator(Passed[k].usage.o))
    /\ result.hasData
    /\ result.breakdown = DeltaTotal(Passed)

\* C3: for the other engines (claude, gemini, none given), the extracted
\* usage is the normalized usage of the highest-index message whose
\* normalized usage has a non-zero field; later messages without usage or
\* with all-zero usage are skipped.
C3_LastWithDataWins ==
    (rendered /\ messagesRef # NullRef /\ engine # "codex" /\ NoNullElement(Passed))
    => /\ ~result.thrown
       /\ result.hasData = (WithData(Passed) # {})
       /\ WithData(Passed) # {} =>
            result.breakdown =
                normalizeUsageForIndicator(CandidateOf(Passed[Last(WithData(Passed))]).o)
       /\ WithData(Passed) = {} => result.breakdown = ZeroUsage

\* the first message has data, a later one has none, the last one is all-zero
C3_Witness ==
    /\ rendered /\ engine # "codex" /\ messagesRef # NullRef
    /\ Len(Passed) = 3
    /\ WithData(Passed) = {1}
    /\ ~IsObject(CandidateOf(Passed[2]))
    /\ IsObject(CandidateOf(Passed[3]))
    /\ result.hasData
    /\ result.breakdown = normalizeUsageForIndicator(CandidateOf(Passed[1]).o)

\* C4: the usage candidate of a message is looked up at message.usage and
\* at message.message.usage; with both present the direct one is used, with
\* only the nested one present the nested one is used.
C4_DirectBeforeNested ==
    /\ \A i \in DOMAIN Passed :
          LET msg == Passed[i] IN
          msg.t # "null" =>
              /\ ~getUsageCandidate(msg, engine).thrown
              /\ IsObject(msg.usage) => CandidateOf(msg) = msg.usage
              /\ (msg.usage.t = "undefined" /\ IsObject(msg.message.usage))
                    => CandidateOf(msg) = msg.message.usage
    /\ (rendered /\ messagesRef # NullRef /\ engine # "codex"
            /\ Len(Passed) = 1 /\ Passed[1].t # "null")
       => LET msg == Passed[1] IN
          /\ IsObject(msg.usage) =>
                /\ result.hasData = NonZero(normalizeUsageForIndicator(msg.usage.o))
                /\ result.breakdown = normalizeUsageForIndicator(msg.usage.o)
          /\ (msg.usage.t = "undefined" /\ IsObject(msg.message.usage)) =>
                result.breakdown = normalizeUsageForIndicator(msg.message.usage.o)

\* one message carrying two different usages: the direct one is reported
C4_Witness ==
    /\ rendered /\ engine # "codex" /\ messagesRef # NullRef
    /\ Len(Passed) = 1
    /\ IsObject(Passed[1].usage) /\ IsObject(Passed[1].message.usage)
    /\ NonZero(normalizeUsageForIndicator(Passed[1].usage.o))
    /\ normalizeUsageForIndicator(Passed[1].usage.o)
          # normalizeUsageForIndicator(Passed[1].message.usage.o)
    /\ result.breakdown = normalizeUsageForIndicator(Passed[1].usage.o)

\* C5: in every result with hasData, currentTokens is inputTokens +
\* cacheCreationTokens + cacheReadTokens of the breakdown; outputTokens
\* adds nothing to it.
C5_CurrentTokensExcludeOutput ==
    (rendered /\ ~result.thrown /\ result.hasData)
    => result.currentTokens =
          result.breakdown.inputTokens + result.breakdown.cacheCreationTokens
              + result.breakdown.cacheReadTokens

C5_Witness ==
    /\ rendered /\ ~result.thrown /\ result.hasData
    /\ result.breakdown.outputTokens > 0
    /\ result.breakdown.inputTokens > 0
    /\ result.breakdown.cacheReadTokens > 0
    /\ result.currentTokens
          = result.breakdown.inputTokens + result.breakdown.cacheCreationTokens
              + result.breakdown.cacheReadTokens

\* C6: the percentage of every result lies in [0, 100]; it is
\* min(100, currentTokens * 100 / contextWindowSize) when contextWindowSize
\* is above zero and 0 otherwise.
C6_PercentageClamped ==
    (rendered /\ ~result.thrown)
    => LET p == result.percentage
           c == result.currentTokens
           w == result.contextWindowSize
       IN  /\ p.den > 0
           /\ 0 <= p.num
           /\ p.num <= 100 * p.den
           /\ w > 0 => IF c >= w THEN p.num = 100 * p.den
                       ELSE p.num * w = c * 100 * p.den
           /\ w <= 0 => p.num = 0

\* more tokens than the window holds: the percentage is 100
C6_Witness ==
    /\ rendered /\ ~result.thrown /\ result.hasData
    /\ result.contextWindowSize > 0
    /\ result.currentTokens > result.contextWindowSize
    /\ result.percentage.num = 100 * result.percentage.den

\* tokens counted against a window of size 0: the percentage is 0
C6_ZeroWindowReached ==
    /\ rendered /\ ~result.thrown /\ result.hasData
    /\ result.currentTokens > 0
    /\ result.contextWindowSize = 0
    /\ result.percentage.num = 0

\* The list holds nothing the extractor of the engine can use.
NothingUsable(items) ==
    IF engine = "codex"
    THEN Snapshots(items) = {} /\ ~NonZero(DeltaTotal(items))
    ELSE WithData(items) = {}

\* C7: with an empty message list, or when the extraction finds no usable
\* usage, the result has hasData false, currentTokens 0, percentage 0 and
\* an all-zero breakdown, and its contextWindowSize is still the resolved
\* one, a context window reported to Codex included.
C7_NoDataResult ==
    (rendered /\ messagesRef # NullRef /\ NoNullElement(Passed)
        /\ (Len(Passed) = 0 \/ NothingUsable(Passed)))
    => /\ ~result.thrown
       /\ ~result.hasData
       /\ result.currentTokens = 0
       /\ result.percentage.num = 0
       /\ result.breakdown = ZeroUsage
       /\ result.contextWindowSize = ExpectedWindow(Passed)

\* no usage anywhere, and a reported window that differs from the table's
C7_Witness ==
    /\ rendered /\ engine = "codex" /\ messagesRef # NullRef
    /\ Len(Passed) > 0 /\ NoNullElement(Passed) /\ NothingUsable(Passed)
    /\ Reports(Passed) # {}
    /\ ~result.hasData
    /\ result.contextWindowSize # getContextWindowSize(model, engine)
    /\ result.contextWindowSize = ExpectedWindow(Passed)

\* C8: for engine codex, contextWindowSize is the
\* codexMetadata.modelContextWindow of the highest-index message that
\* carries a number above zero there, and getContextWindowSize(model,
\* engine) if none does; for every other engine it is always the latter.
C8_ReportedWindowWins ==
    (rendered /\ messagesRef # NullRef /\ ~result.thrown)
    => /\ result.contextWindowSize = ExpectedWindow(Passed)
       /\ engine # "codex" =>
            result.contextWindowSize = getContextWindowSize(model, engine)

\* two different reported windows and a later unusable one: the later
\* of the two usable ones is taken
C8_Witness ==
    /\ rendered /\ engine = "codex" /\ messagesRef # NullRef /\ ~result.thrown
    /\ Len(Passed) = 3
    /\ Reports(Passed) = {1, 2}
    /\ Passed[1].codexMetadata.modelContextWindow
          # Passed[2].codexMetadata.modelContextWindow
    /\ Passed[3].codexMetadata.t = "object"
    /\ result.contextWindowSize = Passed[2].codexMetadata.modelContextWindow.n
    /\ result.contextWindowSize # getContextWindowSize(model, engine)

\* C9: useContextWindowUsage never throws, whatever it is given: a null
\* message list, a list with null elements, malformed usage, any engine.
C9_NeverThrows == rendered => ~result.thrown

\* C9, as far as it goes: a call throws only on a null list or on a list
\* with a null element.
C9_ThrowsOnlyOnNull ==
    (rendered /\ result.thrown)
    => (messagesRef = NullRef \/ ~NoNullElement(Passed))

\* C10: across renders the hook recomputes exactly when the messages
\* reference, messages.length, model or engine differs from the previous
\* render, and otherwise returns the cached result: the result is the pure
\* function of the inputs as they were at the last such render.
C10_MemoRecompute ==
    rendered =>
        /\ recomputed = triggered
        /\ result = computeUsage(MsgsOf(atTrigger.items), atTrigger.model,
                                 atTrigger.engine)

\* a render after an in-place overwrite: nothing triggers, and the result
\* returned is the one of the old contents
C10_Witness ==
    /\ rendered /\ ~triggered /\ ~recomputed
    /\ lastRender = <<messagesRef, Len(arrays[messagesRef]), model, engine>>
    /\ atTrigger.items # arrays[messagesRef]
    /\ result # computeUsage(Passed, model, engine)
    /\ result = computeUsage(MsgsOf(atTrigger.items), atTrigger.model,
                             atTrigger.engine)

(***************************************************************************)
(* Properties of formatK.                                                  *)
(***************************************************************************)
\* text is n / unit written to the nearest tenth with exactly one digit
\* after the point, followed by suffix.
OneDecimal(text, n, unit, suffix) ==
    /\ text.suffix = suffix
    /\ Len(text.frac) = 1
    /\ text.frac[1] \in 0..9
    /\ text.whole \in Nat
    /\ LET tenths == 10 * text.whole + text.frac[1]
           off == 10 * n - tenths * unit
       IN  2 * off <= unit /\ 2 * off >= -unit

\* text is what the claim says formatK writes for n.
FormatsAsK(text, n) ==
    IF n < 1000 THEN text = Text(n, <<>>, "")
    ELSE IF n < 1000000 THEN OneDecimal(text, n, 1000, "K")
    ELSE OneDecimal(text, n, 1000000, "M")

\* C11: formatK writes n below 1000 as the plain integer, n from 1000 up to
\* below 1,000,000 as n / 1000 with one decimal and K, n from 1,000,000 as
\* n / 1,000,000 with one decimal and M; formattedTokens is formatK of the
\* current tokens, " / ", formatK of the window size.
C11_FormatK ==
    fmtDone =>
        /\ FormatsAsK(fmtOutput.current, fmtInput[1])
        /\ FormatsAsK(fmtOutput.window, fmtInput[2])
        /\ fmtOutput.current = formatK(fmtInput[1])
        /\ fmtOutput.window = formatK(fmtInput[2])

\* 1500 of 2,500,000 tokens reads "1.5K / 2.5M".
C11_Witness ==
    /\ fmtDone
    /\ fmtInput = <<1500, 2500000>>
    /\ fmtOutput = [current |-> Text(1, <<5>>, "K"), window |-> Text(2, <<5>>, "M")]

(***************************************************************************)
(* The first loop of extractCodexCumulativeUsage and all-zero snapshots.   *)
(***************************************************************************)
\* The messages that carry a codexMetadata.usage object, all-zero or not.
Carriers(items) == {i \in DOMAIN items : IsObject(items[i].codexMetadata.usage)}

CodexCall ==
    rendered /\ messagesRef # NullRef /\ engine = "codex" /\ NoNullElement(Passed)

\* C15 as stated: the first loop looks only at the most recent message that
\* carries a codexMetadata.usage: a non-zero one is returned, an all-zero
\* one sends the extractor to the delta sum, and an older non-zero snapshot
\* behind it is not returned.
C15_OnlyMostRecentSnapshot ==
    (CodexCall /\ Carriers(Passed) # {})
    => IF HasCumulative(Passed[Last(Carriers(Passed))])
       THEN result.breakdown = CumulativeOf(Passed[Last(Carriers(Passed))])
       ELSE /\ result.breakdown = DeltaTotal(Passed)
            /\ result.hasData = NonZero(DeltaTotal(Passed))

\* C15 amended: the first loop passes over the all-zero codexMetadata.usage
\* objects and returns the most recent non-zero one, also when a more recent
\* message carries an all-zero one; the delta sum is reached only when every
\* codexMetadata.usage in the list is all-zero.
C15_ZeroSnapshotsSkipped ==
    (CodexCall /\ Carriers(Passed) # {})
    => IF Snapshots(Passed) # {}
       THEN /\ result.hasData
            /\ result.breakdown = CumulativeOf(Passed[Last(Snapshots(Passed))])
       ELSE /\ result.breakdown = DeltaTotal(Passed)
            /\ result.hasData = NonZero(DeltaTotal(Passed))

\* an all-zero snapshot after a non-zero one: the older one is returned,
\* and it is not what the delta sum gives
C15_Witness ==
    /\ CodexCall
    /\ Snapshots(Passed) # {}
    /\ Last(Snapshots(Passed)) < Last(Carriers(Passed))
    /\ result.breakdown = CumulativeOf(Passed[Last(Snapshots(Passed))])
    /\ result.breakdown # DeltaTotal(Passed)

\* every snapshot is all-zero and the delta sum is what is returned
C15_AllZeroReached ==
    /\ CodexCall
    /\ Carriers(Passed) # {} /\ Snapshots(Passed) = {}
    /\ result.hasData
    /\ result.breakdown = DeltaTotal(Passed)

(***************************************************************************)
(* formattedPercentage.                                                    *)
(***************************************************************************)
\* C16: in every result returned, with or without data, formattedPercentage
\* is the percentage written with exactly one decimal place and a %
\* (percentage 0 reads 0.0%).
C16_PercentageOneDecimal ==
    (rendered /\ ~result.thrown)
    => OneDecimal(result.formattedPercentage,
                  result.percentage.num, result.percentage.den, "%")

\* The results with data are written so; the zeroed result reads 0%.
C16_OneDecimalWithData ==
    (rendered /\ ~result.thrown)
    => IF result.hasData
       THEN OneDecimal(result.formattedPercentage,
                       result.percentage.num, result.percentage.den, "%")
       ELSE result.formattedPercentage = Text(0, <<>>, "%")

(***************************************************************************)
(* Properties of toggleTheme.                                              *)
(***************************************************************************)
\* The value themeMode had k operations ago.
ModeBefore(k) == modeHistory[Len(modeHistory) - k]

\* C13: toggleTheme takes light to dark, dark to system and system to
\* light; three toggles in a row return to the mode they started from, and
\* themeMode stays one of light, dark, system.
C13_ToggleCycle ==
    themeMounted =>
        /\ themeMode \in ThemeModes
        /\ themeMode = ModeBefore(0)
        /\ (togglesInRow >= 1 /\ Len(modeHistory) >= 2) =>
              /\ ModeBefore(1) = "light" => themeMode = "dark"
              /\ ModeBefore(1) = "dark" => themeMode = "system"
              /\ ModeBefore(1) = "system" => themeMode = "light"
        /\ (togglesInRow >= 3 /\ Len(modeHistory) >= 4) => themeMode = ModeBefore(3)

\* three toggles in a row that started from system and are back at system
C13_Witness ==
    /\ themeMounted
    /\ togglesInRow = 3
    /\ Len(modeHistory) >= 4
    /\ ModeBefore(3) = "system" /\ ModeBefore(2) = "light" /\ ModeBefore(1) = "dark"
    /\ themeMode = "system"

(***************************************************************************)
(* Properties of the model-name caches.                                    *)
(***************************************************************************)
NamesBefore == getCachedNames(lastCall.before)
NamesAfter == getCachedNames(cacheStorage[lastCall.cache])

\* The last call left everything as it was: no write, no event.
CallDidNothing ==
    /\ ~lastCall.wrote
    /\ lastCall.events = [c \in Caches |-> 0]
    /\ cacheStorage[lastCall.cache] = lastCall.before

\* The last call stored the name and notified once.
CallStored ==
    /\ lastCall.wrote
    /\ NamesAfter[lastCall.key] = lastCall.displayName
    /\ \A k \in CacheKeys \ {lastCall.key} : NamesAfter[k] = NamesBefore[k]
    /\ lastCall.events =
           [c \in Caches |-> IF c = lastCall.cache THEN 1 ELSE 0]

OtherCachesKept ==
    \A c \in Caches \ {lastCall.cache} : cacheStorage[c] = lastCall.othersBefore[c]

\* C14 as stated: a call with the name the cache already holds for the key
\* writes nothing and dispatches nothing; any other call leaves the getter
\* returning the new name for the key, the other keys as they were, and
\* dispatches exactly one event.
C14_CacheContract ==
    lastCall.called =>
        /\ OtherCachesKept
        /\ IF NamesBefore[lastCall.key] = lastCall.displayName
           THEN CallDidNothing
           ELSE CallStored

\* C14 amended: the same, provided localStorage.setItem does not throw; when
\* it throws, the call stores nothing and dispatches nothing.
C14_CacheContractWhenWritable ==
    lastCall.called =>
        /\ OtherCachesKept
        /\ IF NamesBefore[lastCall.key] = lastCall.displayName
           THEN CallDidNothing /\ ~lastCall.threw
           ELSE IF lastCall.threw
                THEN CallDidNothing
                ELSE CallStored

\* a call that replaces the name of one key beside another key that is kept
C14_Witness ==
    /\ lastCall.called /\ lastCall.wrote /\ ~lastCall.threw
    /\ \E k \in CacheKeys \ {lastCall.key} : NamesBefore[k] \in DisplayNames
    /\ NamesBefore[lastCall.key] \in DisplayNames
    /\ NamesBefore[lastCall.key] # lastCall.displayName
    /\ CallStored

\* a call with the name already cached: nothing happens
C14_RepeatReached ==
    /\ lastCall.called /\ ~lastCall.wrote /\ ~lastCall.threw
    /\ NamesBefore[lastCall.key] = lastCall.displayName
    /\ CallDidNothing

(***************************************************************************)
(* Properties of useSessionSync.                                           *)
(***************************************************************************)
HasSessionId(tab) == tab.session.id # ""

\* Every tab that has a session id is streaming exactly when its session
\* is running.
SyncConsistent ==
    \A t \in TabIds :
        HasSessionId(tabs[t]) =>
            (tabs[t].state = "streaming" <=> tabs[t].session.id \in running)

\* A step that ends a polling pass.
PassEnds == inFlight.active /\ ~inFlight'.active

\* C12: without any event, once the running sessions have stopped changing
\* and listRunningClaudeSessions succeeds, polling makes every tab that has
\* a session id streaming exactly when its session is running: a pass that
\* was issued after that and reads the tabs as they are ends in that state,
\* and while the hook is mounted that state is reached.
C12_PollingConverges ==
    /\ [][(PassEnds /\ settled /\ ~cancelled /\ tabsRef = tabs
            /\ runningSessionIds(inFlight.activeSessions) = running)
           => SyncConsistent']_vars
    /\ (settled /\ ~cancelled) ~> (cancelled \/ SyncConsistent)

\* a pass issued after the backend settled has corrected a stale tab, with
\* no listener registered at any time
C12_Witness ==
    /\ settled /\ ~cancelled /\ unlisten = "pending"
    /\ lastHandled = "reconciled"
    /\ ~inFlight.active
    /\ SyncConsistent
    /\ tabsRef # tabs

\* C17: a polling pass does not contradict a newer event: a tab that a
\* started event marked streaming while the call of the pass was in flight
\* is not set back to idle by the continuation of that pass.
C17_PassKeepsNewerStart ==
    [][PassEnds =>
          \A t \in inFlight.startedSince :
              tabs[t].state = "streaming" => tabs'[t].state = "streaming"]_vars

\* A step in which the listener's callback handles the event.
EventHandled == pendingEvent.present /\ ~pendingEvent'.present /\ unlisten' = unlisten

SameProject(tab, ev) ==
    /\ ev.project_path # NoPath
    /\ tabProjectPath(tab) # NoPath
    /\ normalizePath(tabProjectPath(tab)) = normalizePath(ev.project_path)

\* C18: the handler takes the tab whose session has the event's session
\* id; only when no tab has it does it take a tab of the same normalized
\* project path, and never one without a session: a new tab is not updated
\* because of an event.
C18_MatchByIdThenPath ==
    [][EventHandled =>
          \A t \in TabIds :
              tabs'[t] # tabs[t] =>
                  /\ tabsRef[t].session.present
                  /\ \/ tabsRef[t].session.id = pendingEvent.session_id
                     \/ /\ \A u \in TabIds :
                               tabsRef[u].session.id # pendingEvent.session_id
                        /\ SameProject(tabsRef[t], pendingEvent)]_vars

\* an event of a session that has no tab was handled: the session tab of
\* the project was found by its path and marked, the new tab before it of
\* the same project was not
C18_Witness ==
    /\ lastHandled = "byPath"
    /\ ~tabs[1].session.present /\ tabs[1].state = "idle"
    /\ tabs[2].session.present /\ tabs[2].state = "streaming"
    /\ tabsRef[2].state = "idle"
    /\ normalizePath(tabProjectPath(tabs[1])) = normalizePath(tabProjectPath(tabs[2]))

\* C19: after the unmount no polling pass calls updateTabStreamingStatus:
\* both timers are cleared, no call is issued any more, and a call in
\* flight at the unmount changes no tab when it resolves.
C19_NoPassAfterUnmount ==
    /\ [](cancelled => initialTimer # "armed" /\ intervalId = "cleared")
    /\ [][cancelled =>
             /\ (~inFlight.active => ~inFlight'.active)
             /\ (PassEnds => tabs' = tabs)]_vars

\* a call in flight at the unmount has resolved and left a stale tab as it
\* was
C19_Witness ==
    /\ cancelled
    /\ lastHandled = "cancelled"
    /\ ~inFlight.active
    /\ tabsRef = tabs
    /\ ~SyncConsistent

\* C20: when listRunningClaudeSessions rejects, the pass changes no tab,
\* the error is caught, and the interval stays armed: later passes run.
C20_RejectedPassIsHarmless ==
    /\ [][(PassEnds /\ lastHandled' = "rejected") =>
             /\ tabs' = tabs
             /\ intervalId' = intervalId
             /\ initialTimer' = initialTimer]_vars
    /\ []((lastHandled = "rejected" /\ ~cancelled) => intervalId = "armed")

\* a pass was rejected with a stale tab left to correct, and the interval
\* is able to fire again
C20_Witness ==
    /\ lastHandled = "rejected"
    /\ ~cancelled
    /\ ~inFlight.active
    /\ ~SyncConsistent
    /\ ENABLED IntervalFires

(***************************************************************************)
(* Properties of useSmartAutoScroll.                                       *)
(***************************************************************************)
Detected(w) == w.userScrolled /\ ~w.shouldAutoScroll

\* C21: while the user is detected as scrolled away (userScrolled true,
\* shouldAutoScroll false) and stays so, no step of the hook calls
\* scrollTo: no timeout, interval or frame callback scheduled earlier
\* performs performAutoScroll.
C21_NoScrollWhileScrolledAway ==
    [][(Detected(autoScroll) /\ Detected(autoScroll')) =>
          ~autoScroll'.scrolledTo]_vars

\* C22: a scroll event handled while isAutoScrollingRef is set changes
\* neither userScrolled nor shouldAutoScroll; handled while it is clear it
\* sets (true, false) when the distance from the bottom exceeds 150 px and
\* (false, true) otherwise.  The flag is set exactly while the timeout
\* armed by the last programmatic scroll (300 ms or 80 ms) is pending.
C22_HandleScrollContract ==
    /\ [][lastStep' = "handleScroll" =>
             IF autoScroll.isAutoScrollingRef
             THEN /\ autoScroll'.userScrolled = autoScroll.userScrolled
                  /\ autoScroll'.shouldAutoScroll = autoScroll.shouldAutoScroll
             ELSE IF autoScroll.distance > 150
                  THEN autoScroll'.userScrolled /\ ~autoScroll'.shouldAutoScroll
                  ELSE ~autoScroll'.userScrolled /\ autoScroll'.shouldAutoScroll]_vars
    /\ [](autoScroll.mounted =>
             /\ autoScroll.isAutoScrollingRef <=>
                    autoScroll.autoScrollTimerRef # NoTimer
             /\ autoScroll.autoScrollTimerRef \in {NoTimer, 300, 80})

\* a scroll event far from the bottom was handled with the flag clear and
\* the user is detected as scrolled away
C22_Witness ==
    /\ lastStep = "handleScroll"
    /\ ~autoScroll.isAutoScrollingRef
    /\ autoScroll.distance > 150
    /\ Detected(autoScroll)

\* a scroll event far from the bottom was handled with the flag set and
\* was ignored
C22_IgnoredReached ==
    /\ lastStep = "handleScroll"
    /\ autoScroll.isAutoScrollingRef
    /\ autoScroll.distance > 150
    /\ Following(autoScroll)

\* C23: when not loading, an activation of the sticky-bottom effect ticks
\* at most 8 times and the 8th tick clears the interval; the interval is
\* active only while the conditions of the activation hold (a cleanup
\* clears it earlier); and no interval stays active forever: an active
\* interval is always followed by its end or by a new activation.
C23_StickyIntervalEnds ==
    /\ [](/\ autoScroll.ticks <= 8
          /\ autoScroll.intervalId =>
                /\ autoScroll.ticks < 8
                /\ ~autoScroll.isLoading
                /\ Following(autoScroll)
                /\ autoScroll.count > 0
                /\ autoScroll.mounted)
    /\ []<>(~autoScroll.intervalId \/ autoScroll.ticks = 0)

\* the interval has ticked 8 times and cleared itself
C23_Witness ==
    /\ autoScroll.ticks = 8
    /\ ~autoScroll.intervalId
    /\ ~autoScroll.isLoading
    /\ Following(autoScroll)
    /\ autoScroll.mounted

\* a cleanup cleared the interval after some ticks and before the 8th
C23_ClearedEarlyReached ==
    /\ lastStep = "handleScroll"
    /\ Detected(autoScroll)
    /\ ~autoScroll.intervalId
    /\ autoScroll.intervalFrame

(***************************************************************************)
(* Properties of useAutoCompactStatus.                                     *)
(***************************************************************************)
EmitStep(payload) == autoCompact' = Deliver(autoCompact, payload)

\* C24: with a sessionId set, an auto-compact-event of another session
\* changes no status field and fires no callback; an event of the hook's
\* session that its listener receives leaves eventType equal to the
\* event's type, isCompacting true exactly for started and in_progress,
\* null payload fields at their previous values, and, when completed,
\* compactionCount greater by exactly 1.
C24_EventContract ==
    [][\A payload \in CompactionEvents :
          EmitStep(payload) =>
             IF payload.session_id # autoCompact.sessionId
             THEN /\ autoCompact'.status = autoCompact.status
                  /\ autoCompact'.fired = 0
             ELSE autoCompact.unlisten = "set" =>
                  /\ autoCompact'.status.eventType = payload.event_type
                  /\ autoCompact'.status.isCompacting <=>
                        payload.event_type \in {"started", "in_progress"}
                  /\ autoCompact'.status.progress =
                        IF payload.progress = NullField
                        THEN autoCompact.status.progress
                        ELSE payload.progress
                  /\ autoCompact'.status.tokensAfter =
                        IF payload.tokens_after = NullField
                        THEN autoCompact.status.tokensAfter
                        ELSE payload.tokens_after
                  /\ autoCompact'.status.compactionCount =
                        IF payload.event_type = "completed"
                        THEN autoCompact.status.compactionCount + 1
                        ELSE autoCompact.status.compactionCount]_vars

(***************************************************************************)
(* Properties of usePluginSlashCommands.                                   *)
(***************************************************************************)
\* C25: the list loadPluginCommands produces holds no two commands with the
\* same name, whatever the backend answered.
C25_NoDuplicateNames ==
    pluginSlash.phase = "done" =>
       \A i, j \in 1..Len(pluginSlash.pluginCommands) :
          pluginSlash.pluginCommands[i].name = pluginSlash.pluginCommands[j].name
             => i = j

(***************************************************************************)
(* Properties of GeneralSettings.                                          *)
(***************************************************************************)
BlankCodexPaths == {path \in CodexPaths : trim(path) = <<>>}

\* C26: setCodexCustomPath is called with a path only after
\* validateCodexPath answered true for that same trimmed path in the same
\* call of handleSetCodexCustomPath, and only such a call changes the saved
\* path to a path; when validation answers false or throws, nothing is
\* saved and custom-path mode stays as it is; a blank path starts no api
\* call and changes neither; validatingCodexPath is false after every
\* outcome.
C26_SaveOnlyAfterValidation ==
    /\ [][/\ (codexSettings'.setting.phase = "saving"
                 /\ codexSettings.setting.phase # "saving") =>
                /\ codexSettings.setting.phase = "validating"
                /\ validateCodexPath(codexSettings.setting.arg)
                /\ codexSettings.setting.arg = trim(codexSettings.setting.path)
                /\ codexSettings'.setting.arg = codexSettings.setting.arg
                /\ codexSettings'.setting.arg # <<>>
          /\ (codexSettings'.saved # codexSettings.saved
                 /\ codexSettings'.saved # <<>>) =>
                /\ codexSettings.setting.phase = "saving"
                /\ codexSettings'.saved = codexSettings.setting.arg
                /\ codexSettings'.outcome = "saved"
          /\ codexSettings'.outcome \in {"blank", "invalid", "threw"} =>
                /\ codexSettings'.saved = codexSettings.saved
                /\ codexSettings'.isCodexCustomPathMode =
                      codexSettings.isCodexCustomPathMode
                /\ codexSettings'.setting.phase = "idle"
          /\ codexSettings'.outcome # "none" =>
                ~codexSettings'.validatingCodexPath]_vars
    /\ [](\A path \in BlankCodexPaths :
             LET c == [codexSettings EXCEPT !.customCodexPath = path,
                                            !.validatingCodexPath = FALSE]
                 after == SetClicked(c)
             IN  /\ after.outcome = "blank"
                 /\ after.saved = c.saved
                 /\ after.setting = c.setting
                 /\ after.isCodexCustomPathMode = c.isCodexCustomPathMode
                 /\ ~after.validatingCodexPath)

\* a path typed with a leading blank was validated and saved trimmed
C26_Witness ==
    /\ codexSettings.outcome = "saved"
    /\ codexSettings.saved = <<"c">>
    /\ ~codexSettings.isCodexCustomPathMode
    /\ ~codexSettings.validatingCodexPath

\* validation answered false: nothing saved, the mode still open
C26_InvalidReached ==
    /\ codexSettings.outcome = "invalid"
    /\ codexSettings.saved = <<>>
    /\ codexSettings.isCodexCustomPathMode
    /\ codexSettings.validating.phase = "validating"

====
